---------------------------- MODULE Spec2Model ----------------------------
(***************************************************************************)
(* A model of the Astro-Musical-Lab widgets:                               *)
(*   - the drum pattern section (step grid editing and MIDI export),       *)
(*   - the chord progression generator (validation, generation request,   *)
(*     note selection per output type, loop schedule),                     *)
(*   - the pulse generator's note emission.                                *)
(*   - the chord preview buttons of the piano roll,                        *)
(*   - the drum transport (useDrumPlayback) and the step sequencer.        *)
(* Strings the program inspects character by character are modelled as     *)
(* sequences of one-character strings.                                     *)
(***************************************************************************)
EXTENDS Integers, Sequences, FiniteSets, TLC

VARIABLES
    \* ---- drum pattern section (DrumPatternSection.tsx)
    selectedPattern,   \* index of the selected pattern in the library
    grid,              \* StepGrid: instrument -> sequence of velocities (0 = no hit)
    totalSteps,        \* number of steps of the grid
    drumStatus,        \* status line of the drum section
    midiTrack,         \* events written to the MIDI track by the last handler
                       \* (<<>> when the last handler exported nothing)
    \* ---- chord progression generator (ChordProgressionGenerator.tsx)
    formValues,        \* the form: progression, outputType, inversionType, ...
    status,            \* StatusMessage: tone and message
    generation,        \* MidiGenerationResult, or NULL
    isGenerating,      \* the busy flag
    lastRequest,       \* the last generate request: its input, whether a download was
                       \* asked for and triggered, how it ended, whether a result
                       \* was stored when it began
    previousVoicing,   \* the engine instance's memory of the last voicing (<<>>: none)
    \* ---- loop playback (useChordPlayback.ts)
    isLooping,
    isLoopingRef,
    startPending,      \* the startLoop calls waiting for the audio context, oldest
                       \* first: what each closes over (schedule, MIDI output, channel)
    timers,            \* the pending timeouts of the window: id and what the callback
                       \* closes over (schedule, item, MIDI output, channel)
    playbackTimeoutRef,\* the timeout whose id the ref holds, or NULL
    playbackIndexRef,  \* 0-based index into the schedule
    playbackNotesRef,  \* the notes the synth holds for the loop, or NULL
    chordIndicator,
    stopReturned,      \* stopLoop has returned and startLoop was not invoked since
    \* ---- MIDI output (useMidiOutput, MidiService)
    midiOutputId,      \* selectedId: "" for none
    midiChannel,       \* 0 = omni, 1..16
    midiSent,          \* the messages the last handler sent to the output, in order
    deviceNotesOn,     \* <<channel, note>> the device got a Note-On for and no Note-Off since
    \* ---- validateProgression applied to a drawn string
    progressionInput,  \* the string under validation
    validation,        \* result of validateProgression, NULL before it ran
    parsedEntries,     \* the engine's entries of the validated string, NULL before
    \* ---- note emission (getNotesForOutputType, playPulse)
    chordUnderTest,    \* a ChordGenerationData handed to getNotesForOutputType
    selectedNotes,     \* what it returned for each output type, NULL before it ran
    heldNotes,         \* the pulse generator's held input notes
    octaveShift,
    rangeAmount,
    phraseShape,
    emittedNotes,      \* notes the last handler handed to the synth (NULL when the
                       \* last handler was not playPulse)
    \* ---- the engine's voicing applied to one entry
    voicingRequest,    \* the entry, base octave, strategy and previous voicing, or NULL
    voicedChord,       \* the ChordGenerationData made for it, or NULL
    \* ---- velocities (playPulse, MidiService.sendNoteOn)
    velocitySettings,  \* the velocity, accent, groove, humanize and repeat sliders, or NULL
    pulseVelocities,   \* the velocities playPulse gave to playChord, NULL before
    repeatVelocities,  \* the velocities of the repeats it scheduled, NULL before
    noteOnRequest,     \* the velocity asked of sendNoteOn, NULL before
    noteOnMessages,    \* the messages sendNoteOn handed to the output, NULL before
    \* ---- chord preview buttons (ChordProgressionPianoRoll.tsx)
    previewHeld,       \* indexes of the chord buttons held down
    previewPending,    \* the startPreviewChord calls waiting for the audio context,
                       \* oldest first: what each closes over
    activeChordNotes,  \* the Map of the ref: indexes with notes held by the synth
    previewPress,      \* per index, the messages its last press sent to the MIDI
                       \* output, until the index is released
    \* ---- drum transport (useDrumPlayback)
    isPlaying,
    currentStep,       \* 0-based step index
    playPending,       \* the handlePlayPause calls waiting for the audio contexts,
                       \* oldest first: the grid their playStep closes over
    soundedStep,       \* what the last transport handler or timer tick sounded: the
                       \* step and its hits, or NULL
    transportStopped,  \* handleStop has returned and handlePlayPause was not invoked since
    \* ---- step sequencer (StepSequencer16.tsx)
    seqActiveSteps,    \* activeSteps: one boolean per step
    seqActiveSecondarySteps,
    seqIsPlaying,
    seqIsLooping,
    seqCurrentStep,    \* -1 right after play was pressed, otherwise a 0-based step
    seqPlayPending,    \* the handlePlay calls waiting for the audio context, oldest
                       \* first: the isPlaying each closes over
    seqVisited,        \* what the timer ticks did since play began, oldest first:
                       \* the step each left the playhead on, and whether it
                       \* stopped playback
    seqTriggers        \* how often the sound effect played since the playhead
                       \* arrived where it is

drumVars == <<selectedPattern, grid, totalSteps, drumStatus, midiTrack>>

generatorVars == <<formValues, status, generation, isGenerating, lastRequest,
                   previousVoicing>>

playbackVars == <<isLooping, isLoopingRef, startPending, timers, playbackTimeoutRef,
                  playbackIndexRef, playbackNotesRef, chordIndicator, stopReturned>>

midiVars == <<midiOutputId, midiChannel, midiSent, deviceNotesOn>>

validateVars == <<progressionInput, validation, parsedEntries>>

noteVars == <<chordUnderTest, selectedNotes, heldNotes, octaveShift, rangeAmount,
              phraseShape, emittedNotes>>

voicingVars == <<voicingRequest, voicedChord>>

velocityVars == <<velocitySettings, pulseVelocities, repeatVelocities, noteOnRequest,
                  noteOnMessages>>

previewVars == <<previewHeld, previewPending, activeChordNotes, previewPress>>

transportVars == <<isPlaying, currentStep, playPending, soundedStep, transportStopped>>

sequencerVars == <<seqActiveSteps, seqActiveSecondarySteps, seqIsPlaying, seqIsLooping,
                   seqCurrentStep, seqPlayPending, seqVisited, seqTriggers>>

widgetVars == <<previewVars, transportVars, sequencerVars>>

vars == <<drumVars, generatorVars, playbackVars, midiVars, validateVars, noteVars,
          voicingVars, velocityVars, widgetVars>>

----------------------------------------------------------------------------
(* Generic helpers *)

Range(s) == {s[i] : i \in 1..Len(s)}

Max(a, b) == IF a >= b THEN a ELSE b

Min(a, b) == IF a <= b THEN a ELSE b

RECURSIVE SumSeq(_)
SumSeq(s) == IF s = <<>> THEN 0 ELSE s[1] + SumSeq(Tail(s))

RECURSIVE FlattenSeq(_)
FlattenSeq(ss) == IF ss = <<>> THEN <<>> ELSE ss[1] \o FlattenSeq(Tail(ss))


----------------------------------------------------------------------------
(* Drum pattern section *)

\* Bound: number of steps of every pattern of the modelled library.
MaxSteps == 3

TPQN == 128

NORMAL_VELOCITY == 110

GHOST_VELOCITY == 40

DISPLAY_ORDER ==
    <<"BD", "SN", "RS", "CL", "CH", "OH", "CY", "CB", "LT", "MT", "HT", "SH", "HC", "LC", "AC">>

GM_DRUM_MAP ==
    [i \in Range(DISPLAY_ORDER) |->
        CASE i = "BD" -> 36 [] i = "SN" -> 38 [] i = "CH" -> 42 [] i = "OH" -> 46
          [] i = "LT" -> 45 [] i = "MT" -> 47 [] i = "HT" -> 50 [] i = "CL" -> 39
          [] i = "SH" -> 70 [] i = "RS" -> 37 [] i = "CB" -> 56 [] i = "CY" -> 49
          [] i = "HC" -> 63 [] i = "AC" -> 57 [] i = "LC" -> 64]

\* The pattern library: instrument -> pattern string ("x" hit, "g" ghost, "." rest).
\* Pattern strings are MaxSteps or MaxSteps - 1 characters long; totalSteps is the
\* length of the first instrument's string.
PatternLibrary ==
    << [name |-> "kick-and-ghost",
        instruments |-> [i \in {"BD", "SN"} |->
            IF i = "BD" THEN [k \in 1..MaxSteps |-> IF k % 2 = 1 THEN "x" ELSE "."]
                        ELSE [k \in 1..MaxSteps |-> IF k % 2 = 0 THEN "g" ELSE "."]],
        totalSteps |-> MaxSteps],
       [name |-> "snare-roll",
        instruments |-> [i \in {"SN"} |->
            [k \in 1..(MaxSteps - 1) |-> IF k = 1 THEN "X" ELSE "G"]],
        totalSteps |-> MaxSteps - 1] >>

parsePatternString(str, n) ==
    [k \in 1..n |->
        IF k <= Len(str)
        THEN (IF str[k] \in {"x", "X"} THEN NORMAL_VELOCITY
              ELSE IF str[k] \in {"g", "G"} THEN GHOST_VELOCITY
              ELSE 0)
        ELSE 0]

buildGrid(pattern) ==
    [grid |-> [i \in DOMAIN pattern.instruments |->
                    parsePatternString(pattern.instruments[i], pattern.totalSteps)],
     totalSteps |-> pattern.totalSteps]

\* Instruments shown (and exported): the grid's instruments in display order.
visibleInstruments(g) ==
    IF DOMAIN g = {} THEN <<"BD", "SN", "CH">>
    ELSE SelectSeq(DISPLAY_ORDER, LAMBDA i : i \in DOMAIN g)

ticksPerStep == Max(1, (2 * TPQN + 4) \div 8)   \* Math.round(TPQN / 4)

startTickOf(stepIndex) == stepIndex * ticksPerStep

endTickLong(startTick) == startTick + 2 * ticksPerStep

endTickOf(startTick) == startTick + ticksPerStep

\* Step 1 of exportMidi: gather a Note-On and a Note-Off per hit, instrument by
\* instrument, step by step (stepIndex is 0-based in the code).
eventsOfInstrument(g, instrument) ==
    LET velocities == g[instrument]
        pair(k) ==
            IF velocities[k] > 0
            THEN << [tick |-> startTickOf(k - 1), type |-> "on",
                     pitch |-> GM_DRUM_MAP[instrument], velocity |-> velocities[k]],
                    [tick |-> endTickOf(startTickOf(k - 1)), type |-> "off",
                     pitch |-> GM_DRUM_MAP[instrument], velocity |-> 0] >>
            ELSE <<>>
    IN FlattenSeq([k \in 1..Len(velocities) |-> pair(k)])

gatherEvents(g) ==
    LET vis == SelectSeq(visibleInstruments(g),
                         LAMBDA i : i \in DOMAIN GM_DRUM_MAP /\ i \in DOMAIN g)
    IN FlattenSeq([n \in 1..Len(vis) |-> eventsOfInstrument(g, vis[n])])

\* The comparator given to absEvents.sort: negative when a goes first.
compareTickOnly(a, b) ==
    IF a.tick # b.tick THEN a.tick - b.tick ELSE 0

compareEvents(a, b) ==
    IF a.tick # b.tick THEN a.tick - b.tick
    ELSE IF a.type = "off" /\ b.type = "on" THEN -1
    ELSE IF a.type = "on" /\ b.type = "off" THEN 1
    ELSE 0

\* Array.prototype.sort is stable: an element goes after every element that does
\* not compare greater than it.
insertStable(sorted, e) ==
    LET before == Cardinality({i \in 1..Len(sorted) : compareEvents(sorted[i], e) <= 0})
    IN SubSeq(sorted, 1, before) \o <<e>> \o SubSeq(sorted, before + 1, Len(sorted))

RECURSIVE sortEvents(_)
sortEvents(evts) ==
    IF evts = <<>> THEN <<>>
    ELSE insertStable(sortEvents(SubSeq(evts, 1, Len(evts) - 1)), evts[Len(evts)])

cursorStale(evt, cursor) == cursor

cursorAfter(evt, cursor) == evt.tick

\* Step 3 of exportMidi: write each event with its delta to the running cursor.
\* The written event carries wait/duration 'T<delta>'; tick is the absolute tick of
\* the event it was written from.
RECURSIVE writeEvents(_, _)
writeEvents(evts, cursor) ==
    IF evts = <<>> THEN <<>>
    ELSE LET evt == evts[1]
             delta == evt.tick - cursor
         IN <<[type |-> evt.type, pitch |-> evt.pitch, velocity |-> evt.velocity,
               delta |-> delta, tick |-> evt.tick]>>
            \o writeEvents(Tail(evts), cursorAfter(evt, cursor))

exportedTrack(g) == writeEvents(sortEvents(gatherEvents(g)), 0)

DrumInit ==
    /\ selectedPattern = 1
    /\ grid = buildGrid(PatternLibrary[1]).grid
    /\ totalSteps = buildGrid(PatternLibrary[1]).totalSteps
    /\ drumStatus = "Select a pattern to preview or export."
    /\ midiTrack = <<>>

\* Selecting another pattern rebuilds the grid (effect on selectedPattern).
SelectPattern ==
    \E p \in 1..Len(PatternLibrary) :
        /\ p # selectedPattern
        /\ selectedPattern' = p
        /\ grid' = buildGrid(PatternLibrary[p]).grid
        /\ totalSteps' = buildGrid(PatternLibrary[p]).totalSteps
        /\ midiTrack' = <<>>
        /\ UNCHANGED <<drumStatus, generatorVars, playbackVars, midiVars, validateVars,
                       noteVars, voicingVars, velocityVars, widgetVars>>

\* toggleStep: Off -> Normal -> Ghost -> Off.
toggledVelocity(v) ==
    IF v = 0 THEN NORMAL_VELOCITY
    ELSE IF v = NORMAL_VELOCITY THEN GHOST_VELOCITY
    ELSE 0

ToggleStep ==
    \E instrument \in Range(visibleInstruments(grid)), index \in 1..totalSteps :
        LET current == IF instrument \in DOMAIN grid THEN grid[instrument]
                       ELSE [k \in 1..totalSteps |-> 0]
            updated == [current EXCEPT ![index] = toggledVelocity(current[index])]
        IN /\ grid' = [i \in DOMAIN grid \cup {instrument} |->
                            IF i = instrument THEN updated ELSE grid[i]]
           /\ midiTrack' = <<>>
           /\ UNCHANGED <<selectedPattern, totalSteps, drumStatus>>
           /\ UNCHANGED <<generatorVars, playbackVars, midiVars, validateVars, noteVars,
                          voicingVars, velocityVars, widgetVars>>

\* addEarCandy: one or two ghost notes on empty steps of a hat/snare-like instrument
\* (or of any instrument when there is none); the random picks are free choices.
AddEarCandy ==
    /\ DOMAIN grid # {}
    /\ LET candidates == DOMAIN grid \cap {"CH", "OH", "SN", "SH", "CL"}
           targets == IF candidates # {} THEN candidates ELSE DOMAIN grid
       IN \E target \in targets :
            LET track == grid[target]
                emptyIndices == {k \in 1..Len(track) : track[k] = 0}
            IN IF emptyIndices # {}
               THEN \E a \in emptyIndices, b \in emptyIndices :
                        /\ grid' = [grid EXCEPT ![target] =
                                        [k \in 1..Len(track) |->
                                            IF k \in {a, b} THEN GHOST_VELOCITY ELSE track[k]]]
                        /\ drumStatus' = "Added ear candy"
               ELSE /\ grid' = grid
                    /\ drumStatus' = "No space for ear candy"
    /\ midiTrack' = <<>>
    /\ UNCHANGED <<selectedPattern, totalSteps, generatorVars, playbackVars, midiVars,
                   validateVars, noteVars, voicingVars, velocityVars, widgetVars>>

ResetPattern ==
    /\ grid' = buildGrid(PatternLibrary[selectedPattern]).grid
    /\ drumStatus' = "Pattern reset to original."
    /\ midiTrack' = <<>>
    /\ UNCHANGED <<selectedPattern, totalSteps, generatorVars, playbackVars, midiVars,
                   validateVars, noteVars, voicingVars, velocityVars, widgetVars>>

ExportMidi ==
    /\ midiTrack' = exportedTrack(grid)
    /\ drumStatus' = "Exported"
    /\ UNCHANGED <<selectedPattern, grid, totalSteps, generatorVars, playbackVars,
                   midiVars, validateVars, noteVars, voicingVars, velocityVars, widgetVars>>

DrumNext ==
    \/ SelectPattern
    \/ ToggleStep
    \/ AddEarCandy
    \/ ResetPattern
    \/ ExportMidi


----------------------------------------------------------------------------
(* Character-level helpers *)

\* null for an object-valued field; every nullable object is modelled as a record.
NULL == [null |-> TRUE]

\* null / undefined for a number-valued field (typeof x !== 'number').
NoNumber == -1

LowerLetters ==
    <<"a", "b", "c", "d", "e", "f", "g", "h", "i", "j", "k", "l", "m",
      "n", "o", "p", "q", "r", "s", "t", "u", "v", "w", "x", "y", "z">>

UpperLetters ==
    <<"A", "B", "C", "D", "E", "F", "G", "H", "I", "J", "K", "L", "M",
      "N", "O", "P", "Q", "R", "S", "T", "U", "V", "W", "X", "Y", "Z">>

toUpperChar(c) ==
    IF \E i \in 1..26 : LowerLetters[i] = c
    THEN UpperLetters[CHOOSE i \in 1..26 : LowerLetters[i] = c]
    ELSE c

toLowerChar(c) ==
    IF \E i \in 1..26 : UpperLetters[i] = c
    THEN LowerLetters[CHOOSE i \in 1..26 : UpperLetters[i] = c]
    ELSE c

toUpperCase(s) == [i \in 1..Len(s) |-> toUpperChar(s[i])]

toLowerCase(s) == [i \in 1..Len(s) |-> toLowerChar(s[i])]

DigitChars == <<"0", "1", "2", "3", "4", "5", "6", "7", "8", "9">>

IsDigit(c) == \E i \in 1..10 : DigitChars[i] = c

DigitVal(c) == (CHOOSE i \in 1..10 : DigitChars[i] = c) - 1

IsSpace(c) == c = " "

\* Length of the maximal run of characters satisfying Test that starts at s[i].
RunLen(s, i, Test(_)) ==
    LET F[k \in i..(Len(s) + 1)] ==
            IF k > Len(s) THEN 0
            ELSE IF Test(s[k]) THEN 1 + F[k + 1] ELSE 0
    IN IF i > Len(s) THEN 0 ELSE F[i]

\* Value of the decimal digits s[i..i+n-1].
DigitsValue(s, i, n) ==
    LET F[k \in 0..n] == IF k = 0 THEN 0 ELSE 10 * F[k - 1] + DigitVal(s[i + k - 1])
    IN F[n]

RECURSIVE Pow10(_)
Pow10(n) == IF n = 0 THEN 1 ELSE 10 * Pow10(n - 1)

\* String.prototype.split on a one-character separator (empty pieces kept).
RECURSIVE splitOn(_, _)
splitOn(s, sep) ==
    IF \E i \in 1..Len(s) : s[i] = sep
    THEN LET i == CHOOSE k \in 1..Len(s) :
                    s[k] = sep /\ \A j \in 1..(k - 1) : s[j] # sep
         IN <<SubSeq(s, 1, i - 1)>> \o splitOn(SubSeq(s, i + 1, Len(s)), sep)
    ELSE <<s>>

RECURSIVE joinWith(_, _)
joinWith(parts, sep) ==
    IF parts = <<>> THEN <<>>
    ELSE IF Len(parts) = 1 THEN parts[1]
    ELSE parts[1] \o sep \o joinWith(Tail(parts), sep)

\* replace(/c/g, ' ') for a single character c.
replaceChar(s, c) == [i \in 1..Len(s) |-> IF s[i] = c THEN " " ELSE s[i]]

\* replace(/->/g, ' ')
RECURSIVE replaceArrow(_)
replaceArrow(s) ==
    IF s = <<>> THEN <<>>
    ELSE IF Len(s) >= 2 /\ s[1] = "-" /\ s[2] = ">"
         THEN <<" ">> \o replaceArrow(SubSeq(s, 3, Len(s)))
         ELSE <<s[1]>> \o replaceArrow(Tail(s))

\* replace(/\s*-\s*/g, ' '): a dash together with the white space around it.
RECURSIVE replaceDash(_)
replaceDash(s) ==
    IF s = <<>> THEN <<>>
    ELSE LET w == RunLen(s, 1, IsSpace)
         IN IF w < Len(s) /\ s[w + 1] = "-"
            THEN LET w2 == RunLen(s, w + 2, IsSpace)
                 IN <<" ">> \o replaceDash(SubSeq(s, w + 2 + w2, Len(s)))
            ELSE <<s[1]>> \o replaceDash(Tail(s))

\* replace(/\s+/g, ' ')
RECURSIVE collapseSpaces(_)
collapseSpaces(s) ==
    IF s = <<>> THEN <<>>
    ELSE IF IsSpace(s[1])
         THEN <<" ">> \o collapseSpaces(SubSeq(s, 1 + RunLen(s, 1, IsSpace), Len(s)))
         ELSE <<s[1]>> \o collapseSpaces(Tail(s))

\* Number of white-space characters at the end of s.
trailingSpaces(s) ==
    IF Len(s) = 0 THEN 0
    ELSE CHOOSE t \in 0..Len(s) :
            /\ \A j \in (Len(s) - t + 1)..Len(s) : IsSpace(s[j])
            /\ (t < Len(s) => ~IsSpace(s[Len(s) - t]))

trimEnd(s) == SubSeq(s, 1, Len(s) - trailingSpaces(s))

trimStart(s) == SubSeq(s, 1 + RunLen(s, 1, IsSpace), Len(s))

trim(s) == trimEnd(trimStart(s))

\* split(/\s+/) of a trimmed string: the maximal runs of non-space characters.
splitSpaces(s) == SelectSeq(splitOn(s, " "), LAMBDA piece : piece # <<>>)

\* parseFloat: the longest prefix that is a decimal literal (optional sign, digits,
\* optional fraction), NaN when there is none. Exponents and Infinity use characters
\* outside the modelled alphabet. A number is num / den.
NaN == [nan |-> TRUE, num |-> 0, den |-> 1]

\* The literal of s with intLen integer digits from position p and fracLen
\* fraction digits after the dot.
decimalLiteral(s, sign, p, intLen, fracLen) ==
    IF intLen = 0 /\ fracLen = 0 THEN NaN
    ELSE [nan |-> FALSE,
          num |-> sign * (DigitsValue(s, p, intLen) * Pow10(fracLen)
                          + DigitsValue(s, p + intLen + 1, fracLen)),
          den |-> Pow10(fracLen)]

parseFraction(s, sign, p, intLen) ==
    decimalLiteral(s, sign, p, intLen,
                   IF p + intLen <= Len(s) /\ s[p + intLen] = "."
                   THEN RunLen(s, p + intLen + 1, IsDigit) ELSE 0)

parseDigits(s, sign, p) == parseFraction(s, sign, p, RunLen(s, p, IsDigit))

parseSigned(s) ==
    parseDigits(s,
                IF Len(s) >= 1 /\ s[1] = "-" THEN -1 ELSE 1,
                IF Len(s) >= 1 /\ s[1] \in {"+", "-"} THEN 2 ELSE 1)

parseFloat(str) == parseSigned(trimStart(str))

isNaN(x) == x.nan

----------------------------------------------------------------------------
(* Chord progression validation (ChordProgressionGenerator.tsx) *)

RootLetters == {"A", "B", "C", "D", "E", "F", "G"}

\* The chord vocabulary table (quality token -> semitone intervals from the root).
CHORD_FORMULAS ==
    [q \in {<<>>, <<"m">>, <<"7">>, <<"m", "7">>, <<"1">>} |->
        CASE q = <<>> -> <<0, 4, 7>>
          [] q = <<"m">> -> <<0, 3, 7>>
          [] q = <<"7">> -> <<0, 4, 7, 10>>
          [] q = <<"m", "7">> -> <<0, 3, 7, 10>>
          [] q = <<"1">> -> <<0>>]

\* The whitelist of named duration codes, each a fraction num/den of a bar.
VALID_DURATION_CODES ==
    [c \in {<<"w">>, <<"h">>, <<"q">>} |->
        CASE c = <<"w">> -> [num |-> 1, den |-> 1]
          [] c = <<"h">> -> [num |-> 1, den |-> 2]
          [] c = <<"q">> -> [num |-> 1, den |-> 4]]

\* /^[A-G][#b]?1$/i
validSingleNotePattern(symbol) ==
    /\ Len(symbol) \in {2, 3}
    /\ toUpperChar(symbol[1]) \in RootLetters
    /\ Len(symbol) = 3 => toLowerChar(symbol[2]) \in {"#", "b"}
    /\ symbol[Len(symbol)] = "1"

slashBassOk(t) ==
    \/ t = <<>>
    \/ /\ Len(t) \in {2, 3}
       /\ t[1] = "/"
       /\ t[2] \in RootLetters
       /\ Len(t) = 3 => t[3] \in {"#", "b"}

\* generateValidChordPattern(): Root, optional accidental, optional quality from the
\* vocabulary table, optional slash bass.
validChordPattern(symbol) ==
    /\ Len(symbol) >= 1
    /\ symbol[1] \in RootLetters
    /\ \E a \in {0, 1} :
         /\ a = 1 => (Len(symbol) >= 2 /\ symbol[2] \in {"#", "b"})
         /\ LET r == SubSeq(symbol, 2 + a, Len(symbol))
            IN \E k \in 0..Len(r) :
                 /\ SubSeq(r, 1, k) \in DOMAIN CHORD_FORMULAS
                 /\ slashBassOk(SubSeq(r, k + 1, Len(r)))

\* /^t\d+$/i
isTickCodePattern(durationStr) ==
    /\ Len(durationStr) >= 2
    /\ toLowerChar(durationStr[1]) = "t"
    /\ RunLen(durationStr, 2, IsDigit) = Len(durationStr) - 1

normalizeProgression(rawProgression) ==
    trim(collapseSpaces(replaceDash(replaceArrow(
        replaceChar(replaceChar(rawProgression, ","), "|")))))

NoDuration == <<"undefined">>

\* const [symbol, durationStr] = entry.split(':')
symbolOfParts(parts) == parts[1]

durationStrOfParts(parts) == IF Len(parts) >= 2 THEN parts[2] ELSE NoDuration

isPositiveNumber(x) == ~isNaN(x) /\ x.num > 0

restDurationAccepted(durationStr) ==
    durationStr # NoDuration /\ isPositiveNumber(parseFloat(durationStr))

\* The spec's decimal bar count: digits with at most one dot, positive.
strictNumericDuration(durationStr) ==
    /\ Len(durationStr) >= 1
    /\ \A i \in 1..Len(durationStr) : IsDigit(durationStr[i]) \/ durationStr[i] = "."
    /\ Cardinality({i \in 1..Len(durationStr) : durationStr[i] = "."}) <= 1
    /\ \E i \in 1..Len(durationStr) : IsDigit(durationStr[i])
    /\ parseFloat(durationStr).num > 0

isValidNumeric(durationStr) == isPositiveNumber(parseFloat(durationStr))

chordDurationAccepted(durationStr) ==
    \/ isValidNumeric(durationStr)
    \/ toLowerCase(durationStr) \in DOMAIN VALID_DURATION_CODES
    \/ isTickCodePattern(durationStr)

\* What the loop body does with one entry split into symbol and durationStr: the
\* token it pushes, or the error it throws.
validateParts(entry, symbol, durationStr) ==
    IF toUpperCase(symbol) = <<"R">>
    THEN IF restDurationAccepted(durationStr)
         THEN [ok |-> TRUE, token |-> entry]
         ELSE [ok |-> FALSE,
               error |-> [kind |-> "RestNeedsDuration", symbol |-> <<"R">>,
                          duration |-> NoDuration]]
    ELSE IF ~validChordPattern(symbol) /\ ~validSingleNotePattern(symbol)
         THEN [ok |-> FALSE,
               error |-> [kind |-> "InvalidChordSymbol", symbol |-> symbol,
                          duration |-> NoDuration]]
    ELSE IF durationStr # NoDuration
         THEN IF chordDurationAccepted(durationStr)
              THEN [ok |-> TRUE, token |-> symbol \o <<":">> \o durationStr]
              ELSE [ok |-> FALSE,
                    error |-> [kind |-> "InvalidDuration", symbol |-> symbol,
                               duration |-> durationStr]]
    ELSE [ok |-> TRUE, token |-> symbol]

validateSplit(entry, parts) ==
    validateParts(entry, symbolOfParts(parts), durationStrOfParts(parts))

validateEntry(entry) == validateSplit(entry, splitOn(entry, ":"))

\* The loop over the entries: it throws at the first entry that fails, so nothing
\* validated so far is returned; otherwise validated.join(' ').
collectValidated(results) ==
    IF \E i \in 1..Len(results) : ~results[i].ok
    THEN [ok |-> FALSE,
          error |-> results[CHOOSE i \in 1..Len(results) :
                                /\ ~results[i].ok
                                /\ \A j \in 1..(i - 1) : results[j].ok].error]
    ELSE [ok |-> TRUE,
          value |-> joinWith([i \in 1..Len(results) |-> results[i].token], <<" ">>),
          tokens |-> [i \in 1..Len(results) |-> results[i].token]]

validateEntries(entries) ==
    collectValidated([i \in 1..Len(entries) |-> validateEntry(entries[i])])

validateNormalized(normalized) ==
    IF normalized = <<>> THEN [ok |-> TRUE, value |-> <<>>, tokens |-> <<>>]
    ELSE validateEntries(splitSpaces(normalized))

validateProgression(rawProgression) ==
    validateNormalized(normalizeProgression(rawProgression))

----------------------------------------------------------------------------
(* The generation engine (lib/chords/MidiGenerator) *)

OutputTypes == {"chordsOnly", "chordsAndBass", "bassOnly", "bassAndFifth", "notesOnly"}

clampMidi(n) == Min(127, Max(0, n))

letterPitchClass(c) ==
    CASE c = "C" -> 0 [] c = "D" -> 2 [] c = "E" -> 4 [] c = "F" -> 5
      [] c = "G" -> 7 [] c = "A" -> 9 [] c = "B" -> 11

\* Pitch class of a note name at the start of s and the number of characters it takes.
noteNameAt(s) ==
    LET acc == IF Len(s) >= 2 /\ s[2] = "#" THEN 1
               ELSE IF Len(s) >= 2 /\ s[2] = "b" THEN -1 ELSE 0
    IN [pc |-> (letterPitchClass(s[1]) + acc + 12) % 12,
        len |-> IF acc = 0 THEN 1 ELSE 2]

barsToTicks(bars) == (bars.num * TPQN * 4) \div bars.den

\* Duration resolution: T<n> verbatim, named code as its fraction of a bar,
\* decimal bars as bars * TPQN * 4.
resolveDurationTicks(durationStr) ==
    IF isTickCodePattern(durationStr)
    THEN [ok |-> TRUE, ticks |-> DigitsValue(durationStr, 2, Len(durationStr) - 1)]
    ELSE IF toLowerCase(durationStr) \in DOMAIN VALID_DURATION_CODES
    THEN [ok |-> TRUE, ticks |-> barsToTicks(VALID_DURATION_CODES[toLowerCase(durationStr)])]
    ELSE IF strictNumericDuration(durationStr)
    THEN [ok |-> TRUE, ticks |-> barsToTicks(parseFloat(durationStr))]
    ELSE [ok |-> FALSE, ticks |-> 0]

\* Position of the first "/" of s, Len(s) + 1 when there is none.
slashPosition(s) ==
    IF \E i \in 1..Len(s) : s[i] = "/"
    THEN CHOOSE i \in 1..Len(s) : s[i] = "/" /\ \A j \in 1..(i - 1) : s[j] # "/"
    ELSE Len(s) + 1

explicitBassOf(bassStr) ==
    IF bassStr # <<>> /\ bassStr[1] \in RootLetters THEN noteNameAt(bassStr).pc
    ELSE NoNumber

\* The chord entry of a symbol whose root note name is root and whose remainder
\* (quality and optional slash bass) is rest.
chordEntryOf(symbol, ticks, root, rest) ==
    [ok |-> TRUE, kind |-> "Chord", symbol |-> symbol,
     rootPitchClass |-> root.pc,
     quality |-> SubSeq(rest, 1, slashPosition(rest) - 1),
     explicitBassPitchClass |->
        explicitBassOf(SubSeq(rest, slashPosition(rest) + 1, Len(rest))),
     durationTicks |-> ticks]

chordEntryFrom(symbol, ticks, root) ==
    chordEntryOf(symbol, ticks, root, SubSeq(symbol, root.len + 1, Len(symbol)))

\* One symbol with its resolved duration as a ProgressionEntry; ok = FALSE is a
\* parse error (malformed symbol or duration), which aborts the generation.
entryOf(symbol, dur) ==
    IF ~dur.ok THEN [ok |-> FALSE, symbol |-> symbol]
    ELSE IF toUpperCase(symbol) = <<"R">>
    THEN [ok |-> TRUE, kind |-> "Rest", symbol |-> symbol, durationTicks |-> dur.ticks]
    ELSE IF Len(symbol) = 0 \/ symbol[1] \notin RootLetters
    THEN [ok |-> FALSE, symbol |-> symbol]
    ELSE chordEntryFrom(symbol, dur.ticks, noteNameAt(symbol))

parseParts(parts, chordDurationStr) ==
    entryOf(symbolOfParts(parts),
            resolveDurationTicks(IF durationStrOfParts(parts) = NoDuration
                                 THEN chordDurationStr
                                 ELSE durationStrOfParts(parts)))

\* One token of the validated string as a ProgressionEntry.
parseEntry(token, chordDurationStr) == parseParts(splitOn(token, ":"), chordDurationStr)

\* Root position: stack the pitch classes upward from baseOctave * 12 + root.
rootPositionVoicing(root, intervals, baseOctave) ==
    LET F[i \in 1..Len(intervals)] ==
            IF i = 1 THEN baseOctave * 12 + root + intervals[1]
            ELSE LET pc == (root + intervals[i]) % 12
                 IN F[i - 1] + ((pc - F[i - 1]) % 12)
    IN [i \in 1..Len(intervals) |-> F[i]]

rootRaisedFifth(rp) == IF Len(rp) <= 1 THEN rp ELSE Tail(rp) \o <<rp[1] + 7>>

rootMovedUp(rp) == IF Len(rp) <= 1 THEN rp ELSE Tail(rp) \o <<rp[1] + 12>>

firstInversionVoicing(root, intervals, baseOctave) ==
    rootMovedUp(rootPositionVoicing(root, intervals, baseOctave))

distanceToNearest(n, prev) ==
    LET d(v) == IF n >= v THEN n - v ELSE v - n
    IN CHOOSE x \in {d(prev[i]) : i \in 1..Len(prev)} :
            \A y \in {d(prev[i]) : i \in 1..Len(prev)} : x <= y

\* Smooth: each pitch class goes to the octave nearest to a note of the previous
\* voicing, the lower pitch on a tie.
smoothVoicing(root, intervals, baseOctave, prev) ==
    IF prev = <<>> THEN rootPositionVoicing(root, intervals, baseOctave)
    ELSE [i \in 1..Len(intervals) |->
            LET pc == (root + intervals[i]) % 12
                cands == {n \in 0..127 : n % 12 = pc}
            IN CHOOSE n \in cands :
                 \A m \in cands :
                    \/ distanceToNearest(n, prev) < distanceToNearest(m, prev)
                    \/ (distanceToNearest(n, prev) = distanceToNearest(m, prev) /\ n <= m)]

clampVoicing(raw) == [i \in 1..Len(raw) |-> clampMidi(raw[i])]

\* The voicing as the strategy places it, before the clamp into 0..127.
placedVoicing(root, intervals, baseOctave, inversionType, prev) ==
    CASE inversionType = "first" -> firstInversionVoicing(root, intervals, baseOctave)
      [] inversionType = "smooth" -> smoothVoicing(root, intervals, baseOctave, prev)
      [] OTHER -> rootPositionVoicing(root, intervals, baseOctave)

voiceChord(root, intervals, baseOctave, inversionType, prev) ==
    clampVoicing(placedVoicing(root, intervals, baseOctave, inversionType, prev))

\* The bass pitch class one octave below the base octave, clamped.
bassNoteFor(bassPc, baseOctave) == clampMidi((baseOctave - 1) * 12 + bassPc)

\* ChordGenerationData of one entry starting at startTick, given the previous voicing.
chordDataFor(entry, startTick, baseOctave, inversionType, prev) ==
    IF entry.kind = "Rest" \/ entry.quality \notin DOMAIN CHORD_FORMULAS
    THEN [symbol |-> entry.symbol, isValid |-> FALSE, kind |-> entry.kind,
          startTimeTicks |-> startTick, durationTicks |-> entry.durationTicks,
          pitchClassSet |-> {}, adjustedVoicing |-> <<>>, calculatedBassNote |-> NoNumber]
    ELSE LET intervals == CHORD_FORMULAS[entry.quality]
             bassPc == IF entry.explicitBassPitchClass # NoNumber
                       THEN entry.explicitBassPitchClass ELSE entry.rootPitchClass
         IN [symbol |-> entry.symbol, isValid |-> TRUE, kind |-> "Chord",
             startTimeTicks |-> startTick, durationTicks |-> entry.durationTicks,
             pitchClassSet |-> {(entry.rootPitchClass + intervals[i]) % 12 :
                                    i \in 1..Len(intervals)},
             adjustedVoicing |-> voiceChord(entry.rootPitchClass, intervals, baseOctave,
                                            inversionType, prev),
             calculatedBassNote |-> bassNoteFor(bassPc, baseOctave)]

\* One step of the left-to-right reduction over the entries: the tick cursor and
\* the previous voicing are threaded through.
tickWithGap(tick, cd) == tick + cd.durationTicks + 1

\* The cursor after an entry: every entry, sounding or not, takes its duration.
tickAfter(tick, cd) == tick + cd.durationTicks

appendDetail(acc, cd) ==
    [details |-> Append(acc.details, cd),
     tick |-> tickAfter(acc.tick, cd),
     prev |-> IF cd.isValid THEN cd.adjustedVoicing ELSE acc.prev]

\* The timeline of a run that starts with the voicing memory prev0.
chordDetailsFrom(entries, baseOctave, inversionType, prev0) ==
    LET F[i \in 0..Len(entries)] ==
            IF i = 0 THEN [details |-> <<>>, tick |-> 0, prev |-> prev0]
            ELSE appendDetail(F[i - 1],
                              chordDataFor(entries[i], F[i - 1].tick, baseOctave,
                                           inversionType, F[i - 1].prev))
    IN F[Len(entries)].details

memoryCarried(memory) == memory

\* The previous-voicing memory is reset at the start of each generation run.
memoryAtRunStart(memory) == <<>>

\* The cursor starts at 0 and the voicing memory of the instance is reset.
chordDetailsOf(entries, baseOctave, inversionType) ==
    chordDetailsFrom(entries, baseOctave, inversionType,
                     memoryAtRunStart(previousVoicing))

\* The voicing memory a run leaves in the instance: the last voicing it made.
memoryAfterDetails(details) ==
    LET valid == SelectSeq(details, LAMBDA cd : cd.isValid)
    IN IF valid = <<>> THEN <<>> ELSE valid[Len(valid)].adjustedVoicing

\* The engine's output-type filter, applied before any timing is computed.
engineNotesFor(chord, outputType) ==
    IF ~chord.isValid THEN <<>>
    ELSE CASE outputType = "chordsOnly" -> chord.adjustedVoicing
           [] outputType = "chordsAndBass" ->
                IF chord.calculatedBassNote \in Range(chord.adjustedVoicing)
                THEN chord.adjustedVoicing
                ELSE Append(chord.adjustedVoicing, chord.calculatedBassNote)
           [] outputType = "bassOnly" -> <<chord.calculatedBassNote>>
           [] outputType = "bassAndFifth" ->
                <<chord.calculatedBassNote, clampMidi(chord.calculatedBassNote + 7)>>
           [] OTHER -> <<>>

notesAt(chord, ns, velocity) ==
    [k \in 1..Len(ns) |->
        [midiNote |-> ns[k], startTimeTicks |-> chord.startTimeTicks,
         durationTicks |-> chord.durationTicks, velocity |-> Min(127, Max(1, velocity))]]

noteListOf(details, outputType, velocity) ==
    FlattenSeq([i \in 1..Len(details) |->
        notesAt(details[i], engineNotesFor(details[i], outputType), velocity)])

resultOf(details, options) ==
    [ok |-> TRUE,
     result |-> [chordDetails |-> details,
                 notesForPianoRoll |->
                    noteListOf(details, options.outputType, options.velocity),
                 finalFileName |-> "progression.mid"]]

generateFromEntries(entries, options) ==
    IF \E i \in 1..Len(entries) : ~entries[i].ok
    THEN [ok |-> FALSE,
          error |-> [kind |-> "ParseError",
                     symbol |-> entries[CHOOSE i \in 1..Len(entries) :
                                            /\ ~entries[i].ok
                                            /\ \A j \in 1..(i - 1) : entries[j].ok].symbol,
                     duration |-> NoDuration]]
    ELSE resultOf(chordDetailsOf(entries, options.baseOctave, options.inversionType),
                  options)

generateFromTokens(tokens, options) ==
    generateFromEntries([i \in 1..Len(tokens) |->
                            parseEntry(tokens[i], options.chordDurationStr)], options)

\* generate(options): the result bag, or the parse error that aborts the run.
generate(options) == generateFromTokens(splitSpaces(options.progressionString), options)

----------------------------------------------------------------------------
(* Loop playback helpers (hooks/useChordPlayback.ts) *)

fifthClamped(bass) == <<bass, clampMidi(bass + 7)>>

\* case 'bassAndFifth' once the bass note is known to be a number.
bassAndFifthNotes(bass) ==
    LET fifth == bass + 7
    IN IF fifth >= 0 /\ fifth <= 127 THEN <<bass, fifth>> ELSE <<bass>>

bassAlwaysAppended(voicing, bass) ==
    IF bass # NoNumber THEN Append(voicing, bass) ELSE voicing

\* case 'chordsAndBass': the voicing, and the bass note unless it is already there.
chordsAndBassNotes(voicing, bass) ==
    IF bass # NoNumber /\ bass \notin Range(voicing)
    THEN Append(voicing, bass)
    ELSE voicing

getNotesForOutputType(chord, outputType) ==
    IF ~chord.isValid THEN <<>>
    ELSE CASE outputType = "chordsOnly" -> chord.adjustedVoicing
           [] outputType = "chordsAndBass" ->
                chordsAndBassNotes(chord.adjustedVoicing, chord.calculatedBassNote)
           [] outputType = "bassOnly" ->
                IF chord.calculatedBassNote # NoNumber THEN <<chord.calculatedBassNote>> ELSE <<>>
           [] outputType = "bassAndFifth" ->
                IF chord.calculatedBassNote = NoNumber THEN <<>>
                ELSE bassAndFifthNotes(chord.calculatedBassNote)
           [] OTHER -> <<>>

\* A ScheduleItem; durationSec is the rational num / den seconds.
scheduleItemOf(chord, outputType, tempo) ==
    [notes |-> getNotesForOutputType(chord, outputType),
     durationSec |-> [num |-> Max(0, chord.durationTicks) * 60,
                      den |-> Max(tempo, 1) * TPQN],
     label |-> IF chord.symbol # <<>> THEN chord.symbol ELSE <<"C", "h", "o", "r", "d">>]

keepItemWithNotes(item) == item.durationSec.num > 0 /\ item.notes # <<>>

\* .filter((item) => item.durationSec > 0)
keepItem(item) == item.durationSec.num > 0

buildSchedule(result, outputType, tempo) ==
    IF result = NULL \/ result.chordDetails = <<>> THEN <<>>
    ELSE SelectSeq([i \in 1..Len(result.chordDetails) |->
                        scheduleItemOf(result.chordDetails[i], outputType, tempo)],
                   keepItem)

----------------------------------------------------------------------------
(* The chord progression generator component and its playback hook *)

\* The progressions typed into the form.
Progressions ==
    { <<>>,
      <<"C", ":", "1", " ", "R", ":", "1", " ", "G", ":", "1">>,
      <<"C", " ", "X", "y", "z", "1", "2", "3", " ", "G">>,
      <<"C", ":", "1", "a", "b", "c", " ", "G">>,
      <<"C", ":", "T", "0", " ", "G">>,
      <<"R">>,
      <<"G">>,
      <<"C", " ", "G", ":", "2">>,
      <<",", " ", "|">> }

defaultValues ==
    [progression |-> <<>>, tempo |-> 120, baseOctave |-> 4, chordDuration |-> <<"1">>,
     outputType |-> "chordsAndBass", inversionType |-> "smooth"]

NoRequest ==
    [input |-> <<>>, download |-> FALSE, downloaded |-> FALSE, outcome |-> "none",
     hadResult |-> FALSE]

IdleIndicator == [text |-> "Click a chord button to play it.", label |-> <<>>]

\* ---- MidiService

\* The outputs the browser lists; getOutputById finds no other id.
ConnectedOutputs == {"out-1"}

\* The values of the output selector: none, or a listed output.
OutputIds == {""} \cup ConnectedOutputs

\* The values of the channel selector the model draws: Omni and channel 16.
ChannelSettings == {0, 16}

NOTE_ON == 144

NOTE_OFF == 128

clampedChannel(channel) == Max(0, Min(15, channel))

channelsFirstOnly(channel) ==
    IF channel = -1 THEN <<0>> ELSE <<clampedChannel(channel)>>

\* The channels one sendNoteOn / sendNoteOff call writes to, in order: all sixteen
\* for -1, otherwise the channel clamped to 0..15.
channelsOf(channel) ==
    IF channel = -1 THEN [c \in 1..16 |-> c - 1] ELSE <<clampedChannel(channel)>>

\* sendNoteOn(outputId, note, velocity, channel): the messages handed to output.send.
sendNoteOn(outputId, note, velocity, channel) ==
    IF outputId \notin ConnectedOutputs
    THEN <<>>
    ELSE [i \in 1..Len(channelsOf(channel)) |->
            <<NOTE_ON + channelsOf(channel)[i], note, velocity>>]

\* sendNoteOff(outputId, note, channel).
sendNoteOff(outputId, note, channel) ==
    IF outputId \notin ConnectedOutputs
    THEN <<>>
    ELSE [i \in 1..Len(channelsOf(channel)) |->
            <<NOTE_OFF + channelsOf(channel)[i], note, 0>>]

RECURSIVE sendChordOn(_, _, _, _)
sendChordOn(outputId, notes, velocity, channel) ==
    IF notes = <<>>
    THEN <<>>
    ELSE sendNoteOn(outputId, Head(notes), velocity, channel)
         \o sendChordOn(outputId, Tail(notes), velocity, channel)

RECURSIVE sendChordOff(_, _, _)
sendChordOff(outputId, notes, channel) ==
    IF notes = <<>>
    THEN <<>>
    ELSE sendNoteOff(outputId, Head(notes), channel)
         \o sendChordOff(outputId, Tail(notes), channel)

\* A message is a Note-On when its status is 0x90..0x9F and its velocity above zero.
isNoteOn(message) == message[1] >= NOTE_ON /\ message[3] > 0

\* The <<channel, note>> a message is about.
keyOf(message) == <<message[1] % 16, message[2]>>

\* The device after it received the messages in order: <<channel, note>> is on
\* when the last message about it was a Note-On, and as before when there was none.
deviceAfter(on, messages) ==
    { key \in on \cup {keyOf(messages[i]) : i \in 1..Len(messages)} :
        \A about \in {{i \in 1..Len(messages) : keyOf(messages[i]) = key}} :
            IF about = {}
            THEN key \in on
            ELSE \E i \in about : isNoteOn(messages[i]) /\ \A j \in about : j <= i }

\* The hook and the MIDI panel after mount: nothing playing, channel Omni.
PlaybackIdle ==
    /\ isLooping = FALSE
    /\ isLoopingRef = FALSE
    /\ startPending = <<>>
    /\ timers = {}
    /\ playbackTimeoutRef = NULL
    /\ playbackIndexRef = 0
    /\ playbackNotesRef = NULL
    /\ chordIndicator = IdleIndicator
    /\ stopReturned = FALSE
    /\ midiChannel = 0
    /\ midiSent = <<>>
    /\ deviceNotesOn = {}

\* The component after mount, the form holding its default values.
GeneratorInit ==
    /\ formValues = defaultValues
    /\ status = [tone |-> "muted", message |-> "Enter a progression to begin.",
                 error |-> NULL]
    /\ generation = NULL
    /\ isGenerating = FALSE
    /\ lastRequest = NoRequest
    /\ previousVoicing = <<>>
    /\ PlaybackIdle
    /\ midiOutputId = ""

\* ---- useChordPlayback

\* stopLoop(), as the primed values of the playback state: clearTimeout of the
\* timeout the ref names; nothing is sent to the MIDI output.
stopLoop ==
    /\ isLooping' = FALSE
    /\ isLoopingRef' = FALSE
    /\ timers' = IF playbackTimeoutRef # NULL
                 THEN {t \in timers : t.id # playbackTimeoutRef.id}
                 ELSE timers
    /\ playbackTimeoutRef' = NULL
    /\ playbackNotesRef' = NULL
    /\ chordIndicator' = IdleIndicator
    /\ stopReturned' = TRUE
    /\ midiSent' = <<>>
    /\ UNCHANGED <<startPending, playbackIndexRef, deviceNotesOn>>

generationKept(current) == current

\* catch: setGeneration(null), whatever result was stored before.
generationAfterFailure(current) == NULL

\* What one run of handleGenerate leaves behind, apart from stopLoop().
outcomeOfRun(download, run) ==
    IF ~run.ok
    THEN [outcome |-> "error", generation |-> NULL, downloaded |-> FALSE,
          status |-> [tone |-> "error", message |-> "error.message",
                      error |-> run.error]]
    ELSE [outcome |-> "success", generation |-> run.result, downloaded |-> download,
          status |-> IF download
                     THEN [tone |-> "success", message |-> "Downloading", error |-> NULL]
                     ELSE [tone |-> "muted", message |-> "Preview updated.",
                           error |-> NULL]]

outcomeOfValidated(values, download, validated) ==
    IF ~validated.ok
    THEN [outcome |-> "error", generation |-> NULL, downloaded |-> FALSE,
          status |-> [tone |-> "error", message |-> "error.message",
                      error |-> validated.error]]
    ELSE IF validated.value = <<>>
    THEN [outcome |-> "cleared", generation |-> NULL, downloaded |-> FALSE,
          status |-> [tone |-> "muted", message |-> "Progression cleared.",
                      error |-> NULL]]
    ELSE outcomeOfRun(download,
                      generate([progressionString |-> validated.value,
                                outputType |-> values.outputType,
                                inversionType |-> values.inversionType,
                                baseOctave |-> values.baseOctave,
                                chordDurationStr |-> values.chordDuration,
                                tempo |-> values.tempo,
                                velocity |-> 110]))

outcomeOfTrimmed(values, download, trimmed) ==
    IF trimmed = <<>>
    THEN [outcome |-> "empty", generation |-> NULL, downloaded |-> FALSE,
          status |-> [tone |-> "muted", message |-> "Enter a progression to begin.",
                      error |-> NULL]]
    ELSE outcomeOfValidated(values, download, validateProgression(trimmed))

handleGenerateOutcome(values, download) ==
    outcomeOfTrimmed(values, download, trim(values.progression))

\* handleValueChange(field, value) for the fields the model varies.
ChangeProgression ==
    \E value \in Progressions :
        /\ value # formValues.progression
        /\ formValues' = [formValues EXCEPT !.progression = value]
        /\ UNCHANGED <<status, generation, isGenerating, lastRequest, previousVoicing>>
        /\ UNCHANGED <<playbackVars, midiVars, drumVars, validateVars, noteVars, voicingVars,
                   velocityVars, widgetVars>>

ChangeOutputType ==
    \E value \in OutputTypes :
        /\ value # formValues.outputType
        /\ formValues' = [formValues EXCEPT !.outputType = value]
        /\ UNCHANGED <<status, generation, isGenerating, lastRequest, previousVoicing>>
        /\ UNCHANGED <<playbackVars, midiVars, drumVars, validateVars, noteVars, voicingVars,
                   velocityVars, widgetVars>>

\* handleGenerate(options): the debounced preview (download = FALSE) or the
\* download button (download = TRUE).
HandleGenerate ==
    \E download \in BOOLEAN :
        \E out \in {handleGenerateOutcome(formValues, download)} :
           /\ generation' = IF out.outcome = "error"
                            THEN generationAfterFailure(generation)
                            ELSE out.generation
           /\ status' = out.status
           /\ isGenerating' = FALSE
           /\ lastRequest' = [input |-> formValues.progression, download |-> download,
                              downloaded |-> out.downloaded, outcome |-> out.outcome,
                              hadResult |-> generation # NULL]
           /\ previousVoicing' =
                CASE out.outcome = "success" ->
                        memoryAfterDetails(out.generation.chordDetails)
                  [] out.outcome = "error" /\ out.status.error.kind = "ParseError" ->
                        memoryAtRunStart(previousVoicing)
                  [] OTHER -> previousVoicing
           /\ stopLoop
           /\ UNCHANGED <<midiOutputId, midiChannel>>
           /\ UNCHANGED <<formValues, drumVars, validateVars, noteVars, voicingVars, velocityVars, widgetVars>>

\* The most startLoop calls and timeouts in flight at once.
MaxChains == 2

\* window.setTimeout returns an id no pending timeout has.
freshTimerId(pending) ==
    CHOOSE n \in 1..(Cardinality(pending) + 1) : \A t \in pending : t.id # n

\* The timeout advance() sets for item: its callback closes over the schedule,
\* the item and the MIDI options of the startLoop call it belongs to.
timerFor(id, run, item) ==
    [id |-> id, schedule |-> run.schedule, item |-> item,
     midiOutputId |-> run.midiOutputId, midiChannel |-> run.midiChannel]

\* What advance() sends for item: sendChordOn when a MIDI output is selected.
advanceSends(run, item) ==
    IF item.notes # <<>> /\ run.midiOutputId # ""
    THEN sendChordOn(run.midiOutputId, item.notes, 127, run.midiChannel - 1)
    ELSE <<>>

\* advance() of the startLoop call run, playbackIndexRef being index and the ref
\* isLoopingRef being looping; sent is what the caller already sent and pending
\* the timeouts still pending.
advance(run, index, looping, sent, pending) ==
    IF ~looping
    THEN /\ timers' = pending
         /\ midiSent' = sent
         /\ deviceNotesOn' = deviceAfter(deviceNotesOn, sent)
         /\ UNCHANGED <<playbackTimeoutRef, playbackNotesRef, chordIndicator>>
    ELSE \E item \in {run.schedule[index + 1]} :
         \E timer \in {timerFor(freshTimerId(pending), run, item)} :
         \E messages \in {sent \o advanceSends(run, item)} :
            /\ IF item.notes # <<>>
               THEN /\ playbackNotesRef' = [notes |-> item.notes]
                    /\ chordIndicator' = [text |-> "Playing", label |-> item.label]
               ELSE /\ playbackNotesRef' = NULL
                    /\ chordIndicator' = [text |-> "Rest", label |-> <<>>]
            /\ midiSent' = messages
            /\ deviceNotesOn' = deviceAfter(deviceNotesOn, messages)
            /\ playbackTimeoutRef' = timer
            /\ timers' = pending \cup {timer}

\* The channel selector of the MIDI panel.
SetMidiChannel ==
    \E value \in ChannelSettings :
        /\ value # midiChannel
        /\ midiChannel' = value
        /\ midiSent' = <<>>
        /\ UNCHANGED <<midiOutputId, deviceNotesOn>>
        /\ UNCHANGED <<generatorVars, playbackVars, drumVars, validateVars, noteVars, voicingVars,
                   velocityVars, widgetVars>>

\* startLoop up to its await: the play button is enabled while isLooping is false.
StartLoop ==
    /\ ~isLooping
    /\ Len(startPending) + Cardinality(timers) < MaxChains
    /\ \E schedule \in {buildSchedule(generation, formValues.outputType, formValues.tempo)} :
        /\ schedule # <<>>
        /\ startPending' = Append(startPending,
                                  [schedule |-> schedule, midiOutputId |-> midiOutputId,
                                   midiChannel |-> midiChannel])
    /\ stopReturned' = FALSE
    /\ midiSent' = <<>>
    /\ UNCHANGED <<isLooping, isLoopingRef, timers, playbackTimeoutRef, playbackIndexRef,
                   playbackNotesRef, chordIndicator>>
    /\ UNCHANGED <<midiOutputId, midiChannel, deviceNotesOn>>
    /\ UNCHANGED <<generatorVars, drumVars, validateVars, noteVars, voicingVars, velocityVars, widgetVars>>

\* startLoop after the audio context resumed: marks the loop running, plays item 0.
StartLoopResumed ==
    /\ startPending # <<>>
    /\ isLooping' = TRUE
    /\ isLoopingRef' = TRUE
    /\ startPending' = Tail(startPending)
    /\ playbackIndexRef' = 0
    /\ advance(Head(startPending), 0, TRUE, <<>>, timers)
    /\ UNCHANGED <<stopReturned, midiOutputId, midiChannel>>
    /\ UNCHANGED <<generatorVars, drumVars, validateVars, noteVars, voicingVars, velocityVars, widgetVars>>

\* The index the timeout callback moves playbackIndexRef to.
nextIndex(index, schedule) == (index + 1) % Len(schedule)

\* What the timeout callback sends before it calls advance().
timeoutSends(timer) ==
    IF timer.midiOutputId # "" /\ timer.item.notes # <<>>
    THEN sendChordOff(timer.midiOutputId, timer.item.notes, timer.midiChannel - 1)
    ELSE <<>>

\* A pending timeout fires: sendChordOff for its item, next index, then advance().
PlaybackTimeout ==
    \E timer \in timers :
        /\ playbackIndexRef' = nextIndex(playbackIndexRef, timer.schedule)
        /\ advance(timer, nextIndex(playbackIndexRef, timer.schedule), isLoopingRef,
                   timeoutSends(timer), timers \ {timer})
        /\ UNCHANGED <<isLooping, isLoopingRef, startPending, stopReturned>>
        /\ UNCHANGED <<midiOutputId, midiChannel>>
        /\ UNCHANGED <<generatorVars, drumVars, validateVars, noteVars, voicingVars, velocityVars, widgetVars>>

\* The stop button, enabled while isLooping is set.
StopLoop ==
    /\ isLooping
    /\ stopLoop
    /\ UNCHANGED <<midiOutputId, midiChannel>>
    /\ UNCHANGED <<generatorVars, drumVars, validateVars, noteVars, voicingVars, velocityVars, widgetVars>>

GeneratorNext ==
    \/ ChangeProgression
    \/ ChangeOutputType
    \/ HandleGenerate

\* The progressions the page is opened with for playback (the URL's progression).
PlaybackProgressions ==
    { <<"C", ":", "1", " ", "R", ":", "1", " ", "G", ":", "1">>,
      <<"G">> }

\* The page opened with a progression in the URL, once the debounced preview
\* (handleGenerate without download) has run: its result is on display, and the
\* MIDI panel has selected the first output the browser lists, if there is one.
PlaybackInit ==
    \E value \in PlaybackProgressions :
        \E values \in {[defaultValues EXCEPT !.progression = value]} :
        \E out \in {handleGenerateOutcome(values, FALSE)} :
            /\ formValues = values
            /\ status = out.status
            /\ generation = out.generation
            /\ isGenerating = FALSE
            /\ lastRequest = [input |-> value, download |-> FALSE, downloaded |-> FALSE,
                              outcome |-> out.outcome, hadResult |-> FALSE]
            /\ previousVoicing = memoryAfterDetails(out.generation.chordDetails)
            /\ PlaybackIdle
            /\ midiOutputId \in OutputIds

PlaybackNext ==
    \/ SetMidiChannel
    \/ StartLoop
    \/ StartLoopResumed
    \/ PlaybackTimeout
    \/ StopLoop

\* ---- chord preview buttons (ChordProgressionPianoRoll.tsx)

\* The most chord buttons held down, and the most presses waiting, at once.
MaxPreviews == 1

\* The notes and chordDetails props of the current render.
notesForRoll == IF generation = NULL THEN <<>> ELSE generation.notesForPianoRoll

chordDetailsForRoll == IF generation = NULL THEN <<>> ELSE generation.chordDetails

isPlayable(cd) == cd.isValid /\ cd.adjustedVoicing # <<>>

playableChords(chordDetails) == SelectSeq(chordDetails, isPlayable)

\* The 0-based indexes of the chord buttons on display.
PreviewButtons == 0..(Len(playableChords(chordDetailsForRoll)) - 1)

\* The notes both handlers look up for a chord: the roll's notes that start with
\* the chord, or the chord's voicing when there are none.
previewMidiNotes(notes, chord) ==
    LET starting == SelectSeq(notes, LAMBDA n : n.startTimeTicks = chord.startTimeTicks)
        midiNotes == [i \in 1..Len(starting) |-> starting[i].midiNote]
    IN IF midiNotes = <<>> THEN chord.adjustedVoicing ELSE midiNotes

\* The release looks the notes up in the props of the render at release time.
previewNotesAtRelease(index) ==
    previewMidiNotes(notesForRoll, playableChords(chordDetailsForRoll)[index + 1])

\* The channel argument both handlers pass to the MIDI service.
previewChannelArg(channel) == channel - 1

\* The Map without its entry for an index.
withoutIndex(entries, index) == {e \in entries : e.index # index}

\* setSelectedId of the MIDI panel.
SelectMidiOutput ==
    \E value \in OutputIds :
        /\ value # midiOutputId
        /\ midiOutputId' = value
        /\ midiSent' = <<>>
        /\ UNCHANGED <<midiChannel, deviceNotesOn>>
        /\ UNCHANGED <<generatorVars, playbackVars, drumVars, validateVars, noteVars,
                       voicingVars, velocityVars, widgetVars>>

\* The base octaves the form is set to while chords are previewed.
PreviewBaseOctaves == {4, 5}

\* handleValueChange('baseOctave', value).
ChangeBaseOctave ==
    \E value \in PreviewBaseOctaves :
        /\ value # formValues.baseOctave
        /\ formValues' = [formValues EXCEPT !.baseOctave = value]
        /\ UNCHANGED <<status, generation, isGenerating, lastRequest, previousVoicing>>
        /\ UNCHANGED <<playbackVars, midiVars, drumVars, validateVars, noteVars, voicingVars,
                       velocityVars, widgetVars>>

\* startPreviewChord(index) up to its await: the chord is read from the current
\* render, and so are the props the rest of the call uses.
StartPreviewChord ==
    \E index \in PreviewButtons \ previewHeld :
        /\ Cardinality(previewHeld) < MaxPreviews
        /\ Len(previewPending) < MaxPreviews
        /\ previewHeld' = previewHeld \cup {index}
        /\ \E chord \in {playableChords(chordDetailsForRoll)[index + 1]} :
             previewPending' =
                Append(previewPending,
                       [index |-> index, symbol |-> chord.symbol,
                        notes |-> previewMidiNotes(notesForRoll, chord),
                        outputId |-> midiOutputId, channel |-> midiChannel])
        /\ midiSent' = <<>>
        /\ UNCHANGED <<activeChordNotes, previewPress>>
        /\ UNCHANGED <<midiOutputId, midiChannel, deviceNotesOn>>
        /\ UNCHANGED <<generatorVars, playbackVars, drumVars, validateVars, noteVars,
                       voicingVars, velocityVars, transportVars, sequencerVars>>

\* startPreviewChord after synth.ensureContextResumed() resolved.
StartPreviewResumed ==
    /\ previewPending # <<>>
    /\ \E call \in {Head(previewPending)} :
       \E messages \in {IF call.outputId # ""
                        THEN sendChordOn(call.outputId, call.notes, 127,
                                         previewChannelArg(call.channel))
                        ELSE <<>>} :
          /\ previewPending' = Tail(previewPending)
          /\ IF call.notes = <<>>
             THEN /\ midiSent' = <<>>
                  /\ UNCHANGED <<activeChordNotes, previewPress, chordIndicator,
                                 deviceNotesOn>>
             ELSE /\ activeChordNotes' =
                        withoutIndex(activeChordNotes, call.index)
                            \cup {[index |-> call.index, notes |-> call.notes]}
                  /\ midiSent' = messages
                  /\ deviceNotesOn' = deviceAfter(deviceNotesOn, messages)
                  /\ previewPress' =
                        withoutIndex(previewPress, call.index)
                            \cup {[index |-> call.index, messages |-> messages]}
                  /\ chordIndicator' = [text |-> "Playing: ", label |-> call.symbol]
    /\ UNCHANGED <<previewHeld, midiOutputId, midiChannel>>
    /\ UNCHANGED <<isLooping, isLoopingRef, startPending, timers, playbackTimeoutRef,
                   playbackIndexRef, playbackNotesRef, stopReturned>>
    /\ UNCHANGED <<generatorVars, drumVars, validateVars, noteVars, voicingVars,
                   velocityVars, transportVars, sequencerVars>>

\* stopPreviewChord(index): mouse up, mouse leave, touch end or touch cancel on a
\* chord button on display.
StopPreviewChord ==
    \E index \in PreviewButtons :
    \E messages \in {IF midiOutputId # ""
                     THEN sendChordOff(midiOutputId, previewNotesAtRelease(index),
                                       previewChannelArg(midiChannel))
                     ELSE <<>>} :
        /\ previewHeld' = previewHeld \ {index}
        /\ activeChordNotes' = withoutIndex(activeChordNotes, index)
        /\ midiSent' = messages
        /\ deviceNotesOn' = deviceAfter(deviceNotesOn, messages)
        /\ previewPress' = withoutIndex(previewPress, index)
        /\ UNCHANGED <<previewPending, midiOutputId, midiChannel>>
        /\ UNCHANGED <<generatorVars, playbackVars, drumVars, validateVars, noteVars,
                       voicingVars, velocityVars, transportVars, sequencerVars>>

\* The debounced handleGenerate() after a change of the form that changes the
\* result, and the render that follows: the piano roll's effect on [notes, chordDetails, synth] stops
\* and forgets the synth's preview notes, and buttons of chords that are no
\* longer on display are gone.
RefreshPreview ==
    \E out \in {handleGenerateOutcome(formValues, FALSE)} :
       /\ out.generation # generation
       /\ generation' = IF out.outcome = "error"
                        THEN generationAfterFailure(generation)
                        ELSE out.generation
       /\ status' = out.status
       /\ isGenerating' = FALSE
       /\ lastRequest' = [input |-> formValues.progression, download |-> FALSE,
                          downloaded |-> out.downloaded, outcome |-> out.outcome,
                          hadResult |-> generation # NULL]
       /\ previousVoicing' =
            CASE out.outcome = "success" ->
                    memoryAfterDetails(out.generation.chordDetails)
              [] out.outcome = "error" /\ out.status.error.kind = "ParseError" ->
                    memoryAtRunStart(previousVoicing)
              [] OTHER -> previousVoicing
       /\ stopLoop
       /\ activeChordNotes' = {}
       /\ previewHeld' =
            {i \in previewHeld :
                i < Len(playableChords(IF generation' = NULL THEN <<>>
                                       ELSE generation'.chordDetails))}
       /\ UNCHANGED <<previewPending, previewPress>>
       /\ UNCHANGED <<midiOutputId, midiChannel>>
       /\ UNCHANGED <<formValues, drumVars, validateVars, noteVars, voicingVars,
                      velocityVars, transportVars, sequencerVars>>

PreviewNext ==
    \/ SetMidiChannel
    \/ SelectMidiOutput
    \/ ChangeBaseOctave
    \/ RefreshPreview
    \/ StartPreviewChord
    \/ StartPreviewResumed
    \/ StopPreviewChord

----------------------------------------------------------------------------
(* The drum transport (useDrumPlayback) *)

\* The most handlePlayPause calls waiting for the audio contexts at once.
MaxPlayCalls == 2

\* playStep(index) of a render with grid g: the instruments on display whose
\* velocity at the step is above zero, in order, with that velocity.
playStep(g, index) ==
    LET playing == SelectSeq(visibleInstruments(g),
                             LAMBDA i : i \in DOMAIN g /\ g[i][index + 1] > 0)
    IN [step |-> index,
        hits |-> [n \in 1..Len(playing) |-> <<playing[n], g[playing[n]][index + 1]>>]]

\* The step after prev in the interval callback.
nextStep(prev, steps) == (prev + 1) % steps

\* handlePlayPause() up to its await: the audio objects exist, and the call
\* keeps the playStep of the render it was made in.
HandlePlayPause ==
    /\ Len(playPending) < MaxPlayCalls
    /\ playPending' = Append(playPending, [grid |-> grid])
    /\ soundedStep' = NULL
    /\ transportStopped' = FALSE
    /\ UNCHANGED <<isPlaying, currentStep>>
    /\ UNCHANGED <<drumVars, generatorVars, playbackVars, midiVars, validateVars, noteVars,
                   voicingVars, velocityVars, previewVars, sequencerVars>>

\* handlePlayPause() after the audio contexts resumed: the updater of
\* setIsPlaying pauses when playing, and otherwise sounds step 0 and starts.
PlayPauseResumed ==
    /\ playPending # <<>>
    /\ playPending' = Tail(playPending)
    /\ IF isPlaying
       THEN /\ isPlaying' = FALSE
            /\ soundedStep' = NULL
            /\ UNCHANGED currentStep
       ELSE /\ isPlaying' = TRUE
            /\ soundedStep' = playStep(Head(playPending).grid, 0)
            /\ currentStep' = 0
    /\ UNCHANGED transportStopped
    /\ UNCHANGED <<drumVars, generatorVars, playbackVars, midiVars, validateVars, noteVars,
                   voicingVars, velocityVars, previewVars, sequencerVars>>

\* handleStop().
HandleStop ==
    /\ isPlaying' = FALSE
    /\ currentStep' = 0
    /\ soundedStep' = NULL
    /\ transportStopped' = TRUE
    /\ UNCHANGED playPending
    /\ UNCHANGED <<drumVars, generatorVars, playbackVars, midiVars, validateVars, noteVars,
                   voicingVars, velocityVars, previewVars, sequencerVars>>

\* The interval callback; the effect keeps an interval exactly while isPlaying
\* and totalSteps > 0, made with the playStep and totalSteps of the last render.
DrumTick ==
    /\ isPlaying
    /\ totalSteps > 0
    /\ currentStep' = nextStep(currentStep, totalSteps)
    /\ soundedStep' = playStep(grid, nextStep(currentStep, totalSteps))
    /\ UNCHANGED <<isPlaying, playPending, transportStopped>>
    /\ UNCHANGED <<drumVars, generatorVars, playbackVars, midiVars, validateVars, noteVars,
                   voicingVars, velocityVars, previewVars, sequencerVars>>

TransportNext ==
    \/ SelectPattern
    \/ HandlePlayPause
    \/ PlayPauseResumed
    \/ HandleStop
    \/ DrumTick

----------------------------------------------------------------------------
(* The step sequencer (StepSequencer16.tsx) *)

\* The totalSteps prop of the modelled sequencer.
SeqSteps == 3

\* clampStep(step, max): the 0-based index of a 1-based step, wrapped.
clampStep(step, max) ==
    IF max <= 0 THEN 0 ELSE (((step - 1) % max) + max) % max

\* createActiveArray(length, indices).
createActiveArray(length, indices) ==
    [k \in 1..Max(1, length) |->
        \E n \in 1..Len(indices) : clampStep(indices[n], Max(1, length)) = k - 1]

\* The steps and secondarySteps props.
SeqStepsProp == <<1>>

SeqSecondaryStepsProp == <<>>

\* The most timer ticks of one play the model follows.
MaxVisits == 5

\* The count of sounds triggered on one arrival is followed up to this number.
MaxTriggers == 2

seqAdvanceAlwaysWraps(prev, looping, steps) ==
    IF prev + 1 >= steps
    THEN [step |-> 0, stops |-> FALSE]
    ELSE [step |-> prev + 1, stops |-> FALSE]

\* The updater of the interval callback: the step after prev, and whether the
\* updater called setIsPlaying(false).
seqAdvance(prev, looping, steps) ==
    IF prev + 1 >= steps
    THEN IF looping
         THEN [step |-> 0, stops |-> FALSE]
         ELSE [step |-> Max(0, steps - 1), stops |-> TRUE]
    ELSE [step |-> prev + 1, stops |-> FALSE]

\* The effect on [currentStep, isPlaying, activeSteps, activeSecondarySteps, ...]
\* of the render after a handler: it plays when the sequencer is playing and
\* the step under the playhead is active in either row. count is the number of
\* sounds of this arrival before the effect ran.
seqTriggersAfter(count, playing, step, primary, secondary) ==
    IF playing /\ step \in 0..(Len(primary) - 1)
               /\ (primary[step + 1] \/ secondary[step + 1])
    THEN Min(count + 1, MaxTriggers)
    ELSE count

\* handlePlay() up to its await: the call keeps the isPlaying of its render.
SeqHandlePlay ==
    /\ Len(seqPlayPending) < MaxPlayCalls
    /\ seqPlayPending' = Append(seqPlayPending, [isPlaying |-> seqIsPlaying])
    /\ UNCHANGED <<seqActiveSteps, seqActiveSecondarySteps, seqIsPlaying, seqIsLooping,
                   seqCurrentStep, seqVisited, seqTriggers>>
    /\ UNCHANGED <<drumVars, generatorVars, playbackVars, midiVars, validateVars, noteVars,
                   voicingVars, velocityVars, previewVars, transportVars>>

\* handlePlay() after its await, and the render that follows.
SeqPlayResumed ==
    /\ seqPlayPending # <<>>
    /\ seqPlayPending' = Tail(seqPlayPending)
    /\ \E call \in {Head(seqPlayPending)} :
         /\ seqIsPlaying' = ~call.isPlaying
         /\ IF ~call.isPlaying
            THEN /\ seqCurrentStep' = -1
                 /\ seqVisited' = <<>>
                 /\ seqTriggers' = seqTriggersAfter(0, TRUE, -1, seqActiveSteps,
                                                    seqActiveSecondarySteps)
            ELSE UNCHANGED <<seqCurrentStep, seqVisited, seqTriggers>>
    /\ UNCHANGED <<seqActiveSteps, seqActiveSecondarySteps, seqIsLooping>>
    /\ UNCHANGED <<drumVars, generatorVars, playbackVars, midiVars, validateVars, noteVars,
                   voicingVars, velocityVars, previewVars, transportVars>>

\* handleStop().
SeqHandleStop ==
    /\ seqIsPlaying' = FALSE
    /\ seqCurrentStep' = 0
    /\ seqTriggers' = 0
    /\ UNCHANGED <<seqActiveSteps, seqActiveSecondarySteps, seqIsLooping, seqPlayPending,
                   seqVisited>>
    /\ UNCHANGED <<drumVars, generatorVars, playbackVars, midiVars, validateVars, noteVars,
                   voicingVars, velocityVars, previewVars, transportVars>>

\* The Loop button: setIsLooping(!isLooping).
SeqToggleLooping ==
    /\ seqIsLooping' = ~seqIsLooping
    /\ UNCHANGED <<seqActiveSteps, seqActiveSecondarySteps, seqIsPlaying, seqCurrentStep,
                   seqPlayPending, seqVisited, seqTriggers>>
    /\ UNCHANGED <<drumVars, generatorVars, playbackVars, midiVars, validateVars, noteVars,
                   voicingVars, velocityVars, previewVars, transportVars>>

\* toggleStep(index, isSecondary) and the render that follows: the new array
\* makes the sound effect run again.
SeqToggleStep ==
    \E index \in 0..(SeqSteps - 1), isSecondary \in BOOLEAN :
        /\ IF isSecondary
           THEN /\ seqActiveSecondarySteps' =
                     [seqActiveSecondarySteps EXCEPT ![index + 1] = ~@]
                /\ UNCHANGED seqActiveSteps
           ELSE /\ seqActiveSteps' = [seqActiveSteps EXCEPT ![index + 1] = ~@]
                /\ UNCHANGED seqActiveSecondarySteps
        /\ seqTriggers' = seqTriggersAfter(seqTriggers, seqIsPlaying, seqCurrentStep,
                                           seqActiveSteps', seqActiveSecondarySteps')
        /\ UNCHANGED <<seqIsPlaying, seqIsLooping, seqCurrentStep, seqPlayPending,
                       seqVisited>>
        /\ UNCHANGED <<drumVars, generatorVars, playbackVars, midiVars, validateVars,
                       noteVars, voicingVars, velocityVars, previewVars, transportVars>>

\* The interval callback and the render that follows; the effect keeps an
\* interval exactly while isPlaying, made with the isLooping of the last render.
\* A tick that leaves currentStep as it was is no new arrival: the sound effect
\* either does not run or finds playback stopped.
SeqTick ==
    /\ seqIsPlaying
    /\ Len(seqVisited) < MaxVisits
    /\ \E next \in {seqAdvance(seqCurrentStep, seqIsLooping, SeqSteps)} :
         /\ seqCurrentStep' = next.step
         /\ seqIsPlaying' = ~next.stops
         /\ seqVisited' = Append(seqVisited, next)
         /\ seqTriggers' =
               IF next.step = seqCurrentStep
               THEN seqTriggers
               ELSE seqTriggersAfter(0, TRUE, next.step, seqActiveSteps,
                                     seqActiveSecondarySteps)
    /\ UNCHANGED <<seqActiveSteps, seqActiveSecondarySteps, seqIsLooping, seqPlayPending>>
    /\ UNCHANGED <<drumVars, generatorVars, playbackVars, midiVars, validateVars, noteVars,
                   voicingVars, velocityVars, previewVars, transportVars>>

SequencerNext ==
    \/ SeqHandlePlay
    \/ SeqPlayResumed
    \/ SeqHandleStop
    \/ SeqToggleLooping
    \/ SeqToggleStep
    \/ SeqTick

----------------------------------------------------------------------------
(* validateProgression and the engine's parser applied to drawn strings *)

MaxTokens == 3

\* Tokens the drawn progressions are made of: valid ones of every form and one
\* of each kind of invalid token.
Words ==
    { <<"C">>, <<"G", ":", "1">>, <<"A", "m", "/", "E", ":", "h">>,
      <<"R", ":", "0", ".", "5">>, <<"C", "1", ":", "T", "6", "4">>,
      <<"C", ":", "0">>, <<"C", ":", "-", "1">>, <<"C", ":", "1", "a", "b", "c">>,
      <<"C", ":", "T", "0">>, <<"R">>, <<"R", ":", "1", "a", "b", "c">>,
      <<"R", ":", "T", "6", "4">>,
      <<"X", "y", "z", "1", "2", "3">> }

Separators == { <<" ">>, <<",", " ">>, <<" ", "-", ">", " ">> }

WordSeqs == UNION {[1..n -> Words] : n \in 1..MaxTokens}

ValidateInit ==
    /\ progressionInput \in {joinWith(ws, sep) : ws \in WordSeqs, sep \in Separators}
    /\ validation = NULL
    /\ parsedEntries = NULL

ValidateIdle ==
    /\ progressionInput = <<>>
    /\ validation = NULL
    /\ parsedEntries = NULL

\* validateProgression(progressionInput)
Validate ==
    /\ validation = NULL
    /\ validation' = validateProgression(progressionInput)
    /\ UNCHANGED <<progressionInput, parsedEntries>>
    /\ UNCHANGED <<drumVars, generatorVars, playbackVars, midiVars, noteVars, voicingVars,
                   velocityVars, widgetVars>>

\* The engine parses the validated string into entries (default duration '1').
ParseValidated ==
    /\ validation # NULL
    /\ validation.ok
    /\ parsedEntries = NULL
    /\ parsedEntries' =
            [entries |-> [i \in 1..Len(validation.tokens) |->
                            parseEntry(validation.tokens[i], defaultValues.chordDuration)]]
    /\ UNCHANGED <<progressionInput, validation>>
    /\ UNCHANGED <<drumVars, generatorVars, playbackVars, midiVars, noteVars, voicingVars,
                   velocityVars, widgetVars>>

ValidateNext ==
    \/ Validate
    \/ ParseValidated

----------------------------------------------------------------------------
(* Note emission: the playback note selection and the pulse generator *)

\* Chords handed to getNotesForOutputType: what the engine produces for a few
\* symbols over base octaves from the lowest to past the top of the MIDI range,
\* and chords whose bass note sits at the edges of the range.
TestSymbols == { <<"C">>, <<"B", "m", "7", "/", "A">>, <<"G", "1">>, <<"C", "X">> }

TestBaseOctaves == {0, 4, 11}

EdgeBassNotes == {0, 120, 121, 127}

EngineChords ==
    { chordDataFor(parseEntry(sym, <<"1">>), 0, oct, inv, <<>>) :
        sym \in TestSymbols, oct \in TestBaseOctaves, inv \in {"first"} }

EdgeChords ==
    { [symbol |-> <<"C">>, isValid |-> TRUE, kind |-> "Chord", startTimeTicks |-> 0,
       durationTicks |-> 4 * TPQN, pitchClassSet |-> {0, 4, 7},
       adjustedVoicing |-> <<clampMidi(b + 12), clampMidi(b + 16), clampMidi(b + 19)>>,
       calculatedBassNote |-> b] : b \in EdgeBassNotes }

\* PulseGeneratorExplorer.tsx
clampNone(value, min, max) == value

clamp(value, min, max) == Min(max, Max(min, value))

\* Math.round of the rational n / d (d > 0): halves go up.
roundRatio(n, d) == (2 * n + d) \div (2 * d)

PhraseShapes == {"Sine", "Sawtooth", "Square", "Random"}

\* The values calculatePhraseModulation can return: one value for Sawtooth and
\* Square; for Random, and for Sine whose Math.sin is not computed here, any
\* rounding of modValue * amount with modValue in [-1, 1].
calculatePhraseModulation(position, length, shape, amount) ==
    LET L == Max(1, length - 1)
    IN IF amount = 0 THEN {0}
       ELSE CASE shape = "Sawtooth" -> {roundRatio((2 * position - L) * amount, L)}
              [] shape = "Square" -> {IF 2 * position < L THEN -amount ELSE amount}
              [] shape \in {"Sine", "Random"} -> (-amount)..amount

PatternLen == 4

MaxHeld == 2

InputOctaves == {2, 6}

NoteIndexes == {0, 11}

OctaveShifts == {-2, 0, 2}

RangeAmounts == {0, 24}

\* No chord button was touched yet.
PreviewIdle ==
    /\ previewHeld = {}
    /\ previewPending = <<>>
    /\ activeChordNotes = {}
    /\ previewPress = {}

\* The drum transport after mount.
TransportIdle ==
    /\ isPlaying = FALSE
    /\ currentStep = 0
    /\ playPending = <<>>
    /\ soundedStep = NULL
    /\ transportStopped = FALSE

\* The step sequencer after mount: stopped, looping on.
SequencerIdle ==
    /\ seqActiveSteps = createActiveArray(SeqSteps, SeqStepsProp)
    /\ seqActiveSecondarySteps = createActiveArray(SeqSteps, SeqSecondaryStepsProp)
    /\ seqIsPlaying = FALSE
    /\ seqIsLooping = TRUE
    /\ seqCurrentStep = 0
    /\ seqPlayPending = <<>>
    /\ seqVisited = <<>>
    /\ seqTriggers = 0

WidgetIdle == PreviewIdle /\ TransportIdle /\ SequencerIdle

VelocityIdle ==
    /\ WidgetIdle
    /\ velocitySettings = NULL
    /\ pulseVelocities = NULL
    /\ repeatVelocities = NULL
    /\ noteOnRequest = NULL
    /\ noteOnMessages = NULL

VoicingIdle ==
    /\ voicingRequest = NULL
    /\ voicedChord = NULL
    /\ VelocityIdle

NotesInit ==
    /\ VoicingIdle
    /\ chordUnderTest \in EngineChords \cup EdgeChords
    /\ selectedNotes = NULL
    /\ heldNotes = <<>>
    /\ octaveShift = 0
    /\ rangeAmount = 0
    /\ phraseShape = "Sine"
    /\ emittedNotes = NULL

NotesIdle ==
    /\ VoicingIdle
    /\ chordUnderTest = NULL
    /\ selectedNotes = NULL
    /\ heldNotes = <<>>
    /\ octaveShift = 0
    /\ rangeAmount = 0
    /\ phraseShape = "Sine"
    /\ emittedNotes = NULL

\* getNotesForOutputType(chordUnderTest, outputType) for every output type.
SelectNotes ==
    /\ selectedNotes = NULL
    /\ selectedNotes' = [byType |-> [ot \in OutputTypes |->
                                        getNotesForOutputType(chordUnderTest, ot)]]
    /\ UNCHANGED <<chordUnderTest, heldNotes, octaveShift, rangeAmount, phraseShape,
                   emittedNotes>>
    /\ UNCHANGED <<drumVars, generatorVars, playbackVars, midiVars, validateVars, voicingVars,
                   velocityVars, widgetVars>>

\* toggleNote(midiNote) from the keyboard of the chosen input octave.
ToggleNote ==
    \E inputOctave \in InputOctaves, index \in NoteIndexes :
        LET note == (inputOctave + 1) * 12 + index
            isOther(entry) == entry # note
        IN /\ note \in Range(heldNotes) \/ Len(heldNotes) < MaxHeld
           /\ heldNotes' = IF note \in Range(heldNotes)
                           THEN SelectSeq(heldNotes, isOther)
                           ELSE Append(heldNotes, note)
           /\ emittedNotes' = NULL
           /\ UNCHANGED <<chordUnderTest, selectedNotes, octaveShift, rangeAmount,
                          phraseShape>>
           /\ UNCHANGED <<drumVars, generatorVars, playbackVars, midiVars, validateVars,
                          voicingVars, velocityVars, widgetVars>>

SetOctaveShift ==
    \E value \in OctaveShifts :
        /\ value # octaveShift
        /\ octaveShift' = value
        /\ emittedNotes' = NULL
        /\ UNCHANGED <<chordUnderTest, selectedNotes, heldNotes, rangeAmount, phraseShape>>
        /\ UNCHANGED <<drumVars, generatorVars, playbackVars, midiVars, validateVars, voicingVars,
                   velocityVars, widgetVars>>

SetRangeAmount ==
    \E value \in RangeAmounts :
        /\ value # rangeAmount
        /\ rangeAmount' = value
        /\ emittedNotes' = NULL
        /\ UNCHANGED <<chordUnderTest, selectedNotes, heldNotes, octaveShift, phraseShape>>
        /\ UNCHANGED <<drumVars, generatorVars, playbackVars, midiVars, validateVars, voicingVars,
                   velocityVars, widgetVars>>

SetPhraseShape ==
    \E value \in PhraseShapes :
        /\ value # phraseShape
        /\ phraseShape' = value
        /\ emittedNotes' = NULL
        /\ UNCHANGED <<chordUnderTest, selectedNotes, heldNotes, octaveShift, rangeAmount>>
        /\ UNCHANGED <<drumVars, generatorVars, playbackVars, midiVars, validateVars, voicingVars,
                   velocityVars, widgetVars>>

\* playPulse in poly mode at any pattern position: the notes given to playChord.
PlayPulse ==
    /\ heldNotes # <<>>
    /\ \E phraseModulation \in
            UNION {calculatePhraseModulation(patternPos, PatternLen, phraseShape,
                                             rangeAmount) :
                        patternPos \in 0..(PatternLen - 1)} :
            emittedNotes' =
                [raw |-> [i \in 1..Len(heldNotes) |->
                            heldNotes[i] + (octaveShift * 12) + phraseModulation],
                 shifted |-> [i \in 1..Len(heldNotes) |->
                            clamp(heldNotes[i] + (octaveShift * 12) + phraseModulation,
                                  0, 127)]]
    /\ UNCHANGED <<chordUnderTest, selectedNotes, heldNotes, octaveShift, rangeAmount,
                   phraseShape>>
    /\ UNCHANGED <<drumVars, generatorVars, playbackVars, midiVars, validateVars, voicingVars,
                   velocityVars, widgetVars>>

\* ---- velocities

\* The slider positions the model draws: velocity 1..127, accent 0..100, groove
\* template 0..7, humanize 0..30, repeats 0..16, repeat offset -100..100.
VelocitySettings ==
    [velocity : {1, 127}, accent : {0, 100}, grooveTemplate : {0, 6, 7},
     humanize : {0, 1}, repeatCount : {0, 2}, repeatOffset : {-100, 0, 100}]

\* velocityScale of a pattern step, in hundredths.
VelocityScales == {40, 100}

\* The groove modulation of calculateVelocity. Math.sin of template 4 is not
\* computed here: any floor of a value in [-15, 15].
grooveMod(grooveTemplate, patternPos, patternLen) ==
    LET d == Max(1, patternLen - 1)
    IN CASE grooveTemplate = 1 -> {IF patternPos % 2 = 1 THEN -10 ELSE 0}
         [] grooveTemplate = 2 -> {IF patternPos % 3 = 2 THEN -15 ELSE 0}
         [] grooveTemplate = 3 -> {IF patternPos % 3 = 0 THEN 10 ELSE -5}
         [] grooveTemplate = 4 -> (-15)..15
         [] grooveTemplate = 5 ->
                {IF 2 * patternPos < d
                 THEN (15 * (4 * patternPos - d)) \div d
                 ELSE (15 * (3 * d - 4 * patternPos)) \div d}
         [] grooveTemplate = 6 -> {(15 * (2 * patternPos - d)) \div d}
         [] grooveTemplate = 7 -> {IF 2 * patternPos < d THEN -15 ELSE 15}
         [] OTHER -> {0}

\* Math.floor(Math.random() * (humanize * 2 + 1) - humanize), or nothing added.
humanizeMod(humanize) == IF humanize > 0 THEN (-humanize)..humanize ELSE {0}

\* The velocity before the final clamp, for one groove and one humanize draw.
velocityUnclamped(baseVelocity, velocityScale, isAccent, accentAmount, groove, human) ==
    ((baseVelocity * velocityScale) \div 100)
        + (IF isAccent /\ accentAmount > 0 THEN (accentAmount * 40) \div 100 ELSE 0)
        + groove + human

\* calculateVelocity(...): the set of values it can return.
calculateVelocity(base, scale, isAccent, pos, patLen, accentAmount, grooveTemplate, humanize) ==
    { clamp(velocityUnclamped(base, scale, isAccent, accentAmount, groove, human), 1, 127) :
        groove \in grooveMod(grooveTemplate, pos, patLen),
        human \in humanizeMod(humanize) }

\* Math.round(clamp(n / d, 1, 127)) for d > 0.
roundClamped(n, d) ==
    IF n < d THEN 1 ELSE IF n > 127 * d THEN 127 ELSE roundRatio(n, d)

\* generateRepeats: the velocity of the i-th of repeatCount repeats, the base
\* velocity being the average sum / count of the pulse's velocities.
repeatVelocity(sum, count, i, repeatCount, repeatOffset) ==
    IF repeatOffset # 0
    THEN roundClamped(sum * (100 * repeatCount + repeatOffset * i),
                      count * 100 * repeatCount)
    ELSE roundRatio(sum, count)

generateRepeats(velocities, repeatCount, repeatOffset) ==
    IF repeatCount = 0 \/ velocities = <<>>
    THEN <<>>
    ELSE [i \in 1..repeatCount |->
            repeatVelocity(SumSeq(velocities), Len(velocities), i, repeatCount,
                           repeatOffset)]

\* The velocities a caller may ask of sendNoteOn.
RequestedVelocities == {0, 127, 200}

VelocityInit ==
    /\ WidgetIdle
    /\ velocitySettings \in VelocitySettings
    /\ pulseVelocities = NULL
    /\ repeatVelocities = NULL
    /\ noteOnRequest = NULL
    /\ noteOnMessages = NULL
    /\ voicingRequest = NULL
    /\ voicedChord = NULL
    /\ chordUnderTest = NULL
    /\ selectedNotes = NULL
    /\ heldNotes = <<>>
    /\ octaveShift = 0
    /\ rangeAmount = 0
    /\ phraseShape = "Sine"
    /\ emittedNotes = NULL

\* playPulse for a pattern step and one or two notes: the velocities given to
\* playChord and those of the repeats it schedules.
PulseVelocities ==
    /\ velocitySettings # NULL
    /\ pulseVelocities = NULL
    /\ \E velocityScale \in VelocityScales, isAccent \in BOOLEAN,
          patternPos \in 0..(PatternLen - 1), count \in 1..2 :
        \E velocities \in
              [1..count -> calculateVelocity(velocitySettings.velocity, velocityScale,
                                             isAccent, patternPos, PatternLen,
                                             velocitySettings.accent,
                                             velocitySettings.grooveTemplate,
                                             velocitySettings.humanize)] :
            /\ pulseVelocities' = [velocities |-> velocities]
            /\ repeatVelocities' =
                    [velocities |-> generateRepeats(velocities,
                                                    velocitySettings.repeatCount,
                                                    velocitySettings.repeatOffset)]
    /\ UNCHANGED <<velocitySettings, noteOnRequest, noteOnMessages>>
    /\ UNCHANGED <<drumVars, generatorVars, playbackVars, midiVars, validateVars, noteVars,
                   voicingVars, widgetVars>>

\* midiService.sendNoteOn(outputId, note, velocity, channel) for a requested velocity.
SendNoteOn ==
    /\ velocitySettings # NULL
    /\ \E velocity \in RequestedVelocities, channel \in {0} :
        /\ noteOnRequest' = [velocity |-> velocity, channel |-> channel]
        /\ noteOnMessages' = [messages |-> sendNoteOn("out-1", 60, velocity, channel)]
    /\ UNCHANGED <<velocitySettings, pulseVelocities, repeatVelocities>>
    /\ UNCHANGED <<drumVars, generatorVars, playbackVars, midiVars, validateVars, noteVars,
                   voicingVars, widgetVars>>

VelocityNext ==
    \/ PulseVelocities
    \/ SendNoteOn

\* The inputs of the engine's voicing the model draws.
VoicingSymbols == { <<"C">>, <<"B", "m", "7", "/", "A">>, <<"G", "7">>, <<"C", "X">> }

VoicingBaseOctaves == {1, 4, 6, 10, 11}

VoicingStrategies == {"none", "first", "smooth"}

VoicingMemories == { <<>>, <<55, 59, 62>>, <<120, 124, 127>> }

VoicingInit ==
    /\ voicingRequest \in [symbol : VoicingSymbols, baseOctave : VoicingBaseOctaves,
                            inversionType : VoicingStrategies,
                            previous : [voicing : VoicingMemories]]
    /\ voicedChord = NULL
    /\ VelocityIdle
    /\ chordUnderTest = NULL
    /\ selectedNotes = NULL
    /\ heldNotes = <<>>
    /\ octaveShift = 0
    /\ rangeAmount = 0
    /\ phraseShape = "Sine"
    /\ emittedNotes = NULL

\* The engine resolves and voices the requested entry.
VoiceEntry ==
    /\ voicingRequest # NULL
    /\ voicedChord = NULL
    /\ voicedChord' = chordDataFor(parseEntry(voicingRequest.symbol, <<"1">>), 0,
                                   voicingRequest.baseOctave,
                                   voicingRequest.inversionType,
                                   voicingRequest.previous.voicing)
    /\ UNCHANGED <<voicingRequest, drumVars, generatorVars, playbackVars, midiVars,
                   validateVars, noteVars, velocityVars, widgetVars>>

VoicingNext == VoiceEntry

NotesNext ==
    \/ SelectNotes
    \/ ToggleNote
    \/ SetOctaveShift
    \/ SetRangeAmount
    \/ SetPhraseShape
    \/ PlayPulse

----------------------------------------------------------------------------
(* Specifications: one per widget, the other widgets staying idle *)

InitDrum == DrumInit /\ GeneratorInit /\ ValidateIdle /\ NotesIdle

InitGen == GeneratorInit /\ DrumInit /\ ValidateIdle /\ NotesIdle

InitPlayback == PlaybackInit /\ DrumInit /\ ValidateIdle /\ NotesIdle

\* The page opened with a progression of one chord.
InitPreview ==
    /\ PlaybackInit /\ DrumInit /\ ValidateIdle /\ NotesIdle
    /\ Len(generation.chordDetails) = 1

InitTransport == DrumInit /\ GeneratorInit /\ ValidateIdle /\ NotesIdle

InitSequencer == DrumInit /\ GeneratorInit /\ ValidateIdle /\ NotesIdle

InitValidate == DrumInit /\ GeneratorInit /\ ValidateInit /\ NotesIdle

InitNotes == DrumInit /\ GeneratorInit /\ ValidateIdle /\ NotesInit

InitVoicing == DrumInit /\ GeneratorInit /\ ValidateIdle /\ VoicingInit

InitVelocity == DrumInit /\ GeneratorInit /\ ValidateIdle /\ VelocityInit

SpecDrum == InitDrum /\ [][DrumNext]_vars

SpecGen == InitGen /\ [][GeneratorNext]_vars

SpecPlayback == InitPlayback /\ [][PlaybackNext]_vars

SpecPreview == InitPreview /\ [][PreviewNext]_vars

SpecTransport == InitTransport /\ [][TransportNext]_vars

SpecSequencer == InitSequencer /\ [][SequencerNext]_vars

SpecValidate == InitValidate /\ [][ValidateNext]_vars

SpecNotes == InitNotes /\ [][NotesNext]_vars

SpecVoicing == InitVoicing /\ [][VoicingNext]_vars

SpecVelocity == InitVelocity /\ [][VelocityNext]_vars

----------------------------------------------------------------------------
(* Properties of the exported drum track (specification SpecDrum) *)

\* The absolute tick the written track gives its i-th event: the sum of the deltas
\* up to and including it.
absTickAt(track, i) == SumSeq([k \in 1..i |-> track[k].delta])

noteBalance(track, pitch, n) ==
    Cardinality({i \in 1..n : track[i].pitch = pitch /\ track[i].type = "on"})
    - Cardinality({i \in 1..n : track[i].pitch = pitch /\ track[i].type = "off"})

\* C1: in the exported track, at every tick, all Note-Offs at that tick come
\* before any Note-On at that tick: no Note-On is followed later in the sequence by
\* a Note-Off with the same absolute tick, whatever the two pitches are.
C1_OffBeforeOnAtSameTick ==
    \A i \in 1..Len(midiTrack) : \A j \in (i + 1)..Len(midiTrack) :
        (midiTrack[i].type = "on"
            /\ absTickAt(midiTrack, i) = absTickAt(midiTrack, j))
        => midiTrack[j].type # "off"

\* An export in which a ghost note ends exactly where an accent of the same pitch
\* begins, and a note of one pitch ends exactly where a note of another begins.
C1_Witness ==
    /\ \E i \in 1..Len(midiTrack) : \E j \in (i + 1)..Len(midiTrack) :
        \E g \in 1..(i - 1) :
            /\ midiTrack[i].type = "off" /\ midiTrack[j].type = "on"
            /\ midiTrack[i].pitch = midiTrack[j].pitch
            /\ absTickAt(midiTrack, i) = absTickAt(midiTrack, j)
            /\ midiTrack[j].velocity = NORMAL_VELOCITY
            /\ midiTrack[g].type = "on" /\ midiTrack[g].pitch = midiTrack[i].pitch
            /\ midiTrack[g].velocity = GHOST_VELOCITY
            /\ absTickAt(midiTrack, g) + ticksPerStep = absTickAt(midiTrack, i)
    /\ \E i \in 1..Len(midiTrack) : \E j \in (i + 1)..Len(midiTrack) :
            /\ midiTrack[i].type = "off" /\ midiTrack[j].type = "on"
            /\ midiTrack[i].pitch # midiTrack[j].pitch
            /\ absTickAt(midiTrack, i) = absTickAt(midiTrack, j)

\* C6: the delta written for each event is that event's absolute tick minus the
\* absolute tick of the event written just before it (0 before the first): every
\* delta is >= 0 and the deltas up to an event sum to its absolute tick.
C6_DeltaIsTickDifference ==
    \A i \in 1..Len(midiTrack) :
        /\ midiTrack[i].delta >= 0
        /\ midiTrack[i].delta =
                midiTrack[i].tick - (IF i = 1 THEN 0 ELSE midiTrack[i - 1].tick)
        /\ absTickAt(midiTrack, i) = midiTrack[i].tick

\* An export with simultaneous events (delta 0) and events later in time, the last
\* of them beyond the second step.
C6_Witness ==
    /\ Len(midiTrack) >= 4
    /\ \E i \in 2..Len(midiTrack) : midiTrack[i].delta = 0
    /\ \E i \in 3..Len(midiTrack) :
            midiTrack[i].delta > 0 /\ midiTrack[i - 1].tick > 0
    /\ midiTrack[Len(midiTrack)].tick >= 2 * ticksPerStep

\* C7: notes are written as matched pairs: in every prefix of the exported track
\* the Note-Ons minus the Note-Offs of each pitch is 0 or 1, it is 0 at the end, and
\* the Note-Off that closes a Note-On is one sixteenth step (ticksPerStep) later.
C7_MatchedPairs ==
    \A pitch \in {GM_DRUM_MAP[i] : i \in DOMAIN GM_DRUM_MAP} :
        /\ \A n \in 0..Len(midiTrack) : noteBalance(midiTrack, pitch, n) \in {0, 1}
        /\ noteBalance(midiTrack, pitch, Len(midiTrack)) = 0
        /\ \A i \in 1..Len(midiTrack) :
            (midiTrack[i].pitch = pitch /\ midiTrack[i].type = "on")
            => \E j \in (i + 1)..Len(midiTrack) :
                /\ midiTrack[j].pitch = pitch /\ midiTrack[j].type = "off"
                /\ \A k \in (i + 1)..(j - 1) : midiTrack[k].pitch # pitch
                /\ absTickAt(midiTrack, j) = absTickAt(midiTrack, i) + ticksPerStep

\* An export with two pitches, one of them hit on consecutive steps.
C7_Witness ==
    /\ \E i \in 1..Len(midiTrack) : \E j \in 1..Len(midiTrack) :
            midiTrack[i].pitch # midiTrack[j].pitch
    /\ \E i \in 1..Len(midiTrack) : \E j \in (i + 1)..Len(midiTrack) :
            /\ midiTrack[i].type = "on" /\ midiTrack[j].type = "on"
            /\ midiTrack[i].pitch = midiTrack[j].pitch
            /\ absTickAt(midiTrack, j) = absTickAt(midiTrack, i) + ticksPerStep

----------------------------------------------------------------------------
(* Properties of the generate request (specification SpecGen) *)

RestProgression == <<"C", ":", "1", " ", "R", ":", "1", " ", "G", ":", "1">>

UnknownQualityProgression == <<"C", " ", "X", "y", "z", "1", "2", "3", " ", "G">>

\* C2: when validation or generation fails during a generate request, the stored
\* generation result is null afterwards, also when an earlier request had left a
\* result; no download is triggered and the status shows the error.
C2_FailedRequestLeavesNoResult ==
    lastRequest.outcome = "error"
    => /\ generation = NULL
       /\ ~lastRequest.downloaded
       /\ status.tone = "error"
       /\ status.error # NULL

\* A download request that failed while the result of an earlier request was stored.
C2_Witness ==
    /\ lastRequest.outcome = "error"
    /\ lastRequest.hadResult
    /\ lastRequest.download

\* C4: after a generate request for "C Xyz123 G" a result is stored whose
\* chordDetails has three entries, only the middle one with isValid = FALSE and
\* without notes, the other two valid and timed as they would be anyway.
C4_UnknownQualityDoesNotAbort ==
    (lastRequest.outcome # "none" /\ lastRequest.input = UnknownQualityProgression)
    => /\ generation # NULL
       /\ Len(generation.chordDetails) = 3
       /\ generation.chordDetails[1].isValid
       /\ ~generation.chordDetails[2].isValid
       /\ generation.chordDetails[3].isValid
       /\ \A ot \in OutputTypes :
            getNotesForOutputType(generation.chordDetails[2], ot) = <<>>
       /\ generation.chordDetails[1].startTimeTicks = 0
       /\ generation.chordDetails[3].startTimeTicks = 2 * 4 * TPQN

\* Seconds num / den of the schedule items before the k-th, as a numerator over
\* the common denominator.
scheduleOffsetNum(schedule, k) ==
    SumSeq([i \in 1..(k - 1) |-> schedule[i].durationSec.num])

\* C5: a rest is a timeline entry without notes that takes its full duration. For
\* "C:1 R:1 G:1" the result has three entries, the rest yields no note for any
\* output type and no note of the note list starts during it, G starts two bars
\* after C in the timeline and in the schedule built from it, and while the loop
\* is at an item without notes the synth holds none.
C5_RestAdvancesTime ==
    /\ (generation # NULL /\ lastRequest.input = RestProgression)
        => /\ Len(generation.chordDetails) = 3
           /\ generation.chordDetails[2].kind = "Rest"
           /\ \A ot \in OutputTypes :
                getNotesForOutputType(generation.chordDetails[2], ot) = <<>>
           /\ \A n \in 1..Len(generation.notesForPianoRoll) :
                generation.notesForPianoRoll[n].startTimeTicks
                    # generation.chordDetails[2].startTimeTicks
           /\ generation.chordDetails[3].startTimeTicks
                = generation.chordDetails[1].startTimeTicks + 2 * 4 * TPQN
           /\ \A ot \in OutputTypes :
                \A schedule \in {buildSchedule(generation, ot, formValues.tempo)} :
                    /\ Len(schedule) = 3
                    /\ schedule[2].notes = <<>>
                    /\ schedule[3].label = <<"G">>
                    \* offset of G in seconds = two bars = 2 * 4 * 60 / tempo
                    /\ scheduleOffsetNum(schedule, 3) * formValues.tempo
                        = 2 * 4 * 60 * schedule[1].durationSec.den
    /\ (playbackTimeoutRef # NULL
        /\ playbackTimeoutRef.item.notes = <<>>)
        => /\ playbackNotesRef = NULL
           /\ chordIndicator.text = "Rest"

\* The loop over "C:1 R:1 G:1" is at the rest.
C5_Witness ==
    /\ generation # NULL
    /\ lastRequest.input = RestProgression
    /\ isLooping
    /\ playbackTimeoutRef # NULL
    /\ Len(playbackTimeoutRef.schedule) = 3
    /\ playbackIndexRef = 1
    /\ chordIndicator.text = "Rest"

\* The timeline an engine instance without voicing memory makes of the tokens.
freshDetailsOfTokens(tokens) ==
    chordDetailsFrom([i \in 1..Len(tokens) |->
                        parseEntry(tokens[i], defaultValues.chordDuration)],
                     defaultValues.baseOctave, defaultValues.inversionType, <<>>)

freshDetailsOf(input) == freshDetailsOfTokens(validateProgression(trim(input)).tokens)

----------------------------------------------------------------------------
(* Properties of validation (specification SpecValidate) *)

durationInGrammar(durationStr) ==
    \/ strictNumericDuration(durationStr)
    \/ toLowerCase(durationStr) \in DOMAIN VALID_DURATION_CODES
    \/ isTickCodePattern(durationStr)

\* A token of the progression grammar: R with a duration, or a chord symbol with
\* an optional duration; a duration is a positive decimal, a named code or T<n>.
partsInGrammar(parts) ==
    /\ Len(parts) <= 2
    /\ IF toUpperCase(parts[1]) = <<"R">>
       THEN Len(parts) = 2 /\ durationInGrammar(parts[2])
       ELSE /\ validChordPattern(parts[1]) \/ validSingleNotePattern(parts[1])
            /\ Len(parts) = 2 => durationInGrammar(parts[2])

tokenInGrammar(entry) == partsInGrammar(splitOn(entry, ":"))

errorNamesToken(error, parts) ==
    \/ error.symbol = parts[1]
    \/ Len(parts) >= 2 /\ error.duration = parts[2]

\* C3: a progression with at least one invalid token, wherever it sits, fails
\* validation as a whole: the result carries no validated tokens and its error
\* names an offending token.
C3_InvalidTokenFailsValidation ==
    validation # NULL
    => \A entries \in {splitSpaces(normalizeProgression(progressionInput))} :
        (\E i \in 1..Len(entries) : ~tokenInGrammar(entries[i]))
        => /\ ~validation.ok
           /\ \E i \in 1..Len(entries) :
                /\ ~tokenInGrammar(entries[i])
                /\ errorNamesToken(validation.error, splitOn(entries[i], ":"))

\* C10: every entry of a progression that passed validation has durationTicks > 0.
C10_ValidatedDurationsPositive ==
    parsedEntries # NULL
    => \A i \in 1..Len(parsedEntries.entries) :
            parsedEntries.entries[i].ok => parsedEntries.entries[i].durationTicks > 0

\* C11: a rest token is accepted exactly when it carries a duration of the
\* duration grammar (positive decimal bar count, named code or T<integer>); a
\* bare R is rejected. Stated for the progressions made of one rest token.
C11_RestAcceptedIffDurationValid ==
    validation # NULL
    => \A entries \in {splitSpaces(normalizeProgression(progressionInput))} :
        (Len(entries) = 1
            /\ toUpperCase(symbolOfParts(splitOn(entries[1], ":"))) = <<"R">>)
        => (validation.ok <=> tokenInGrammar(entries[1]))

----------------------------------------------------------------------------
(* Properties of the emitted notes (specification SpecNotes) *)

MidiNotes == 0..127

timesListed(seq, n) == Cardinality({i \in 1..Len(seq) : seq[i] = n})

sounding(cd) == cd.isValid /\ cd.kind # "Rest"

pitchClassesOf(voicing) == {voicing[i] % 12 : i \in 1..Len(voicing)}

\* The voicing of the requested entry as placed, before the clamp.
placedForRequest(request) ==
    LET entry == parseEntry(request.symbol, <<"1">>)
    IN placedVoicing(entry.rootPitchClass, CHORD_FORMULAS[entry.quality],
                     request.baseOctave, request.inversionType, request.previous.voicing)

loopQuiet == startPending = <<>> /\ timers = {}

\* C17: every Note-On the loop sent is eventually followed by its Note-Off, also
\* when stopLoop is called while the chord sounds. Once the loop is stopped and
\* nothing of it is left to run, no more message can follow, so no note may still
\* be on at the device.
C17_NoNoteLeftOnAfterStop ==
    (~isLoopingRef /\ loopQuiet) => deviceNotesOn = {}

\* The Note-On messages among the messages sent.
noteOnsIn(messages) == SelectSeq(messages, isNoteOn)

\* C18: after stopLoop has returned and until startLoop is invoked again, no chord
\* is started and no Note-On is sent, also when a startLoop call was still waiting
\* for the audio context when stopLoop ran.
C18_NothingStartsAfterStop ==
    stopReturned
    => /\ ~isLoopingRef
       /\ playbackNotesRef = NULL
       /\ noteOnsIn(midiSent) = <<>>

\* C19: there is never more than one pending advance timeout of the chord loop,
\* also when startLoop is invoked again while an earlier call still waits for the
\* audio context.
C19_AtMostOnePendingTimer ==
    Cardinality(timers) <= 1

\* The number of channels the selector setting stands for.
channelCountOf(setting) == IF setting = 0 THEN 16 ELSE 1

\* One message per note of the item and channel of the setting, note by note and
\* channel by channel: statusByte + channel, the note, the velocity byte.
oncePerChannel(statusByte, velocity, notes, setting) ==
    [k \in 1..(Len(notes) * channelCountOf(setting)) |->
        <<statusByte + (IF setting = 0 THEN (k - 1) % 16 ELSE setting - 1),
          notes[((k - 1) \div channelCountOf(setting)) + 1],
          velocity>>]

\* C20, Note-On side: the Note-Ons the last handler sent are those of the item
\* advance() has just started, once per note on every channel 0x90..0x9F for the
\* Omni setting and once with status 0x90 + (n - 1) for a setting n, the setting
\* being the one the loop was started with.
noteOnsAsSet ==
    noteOnsIn(midiSent) # <<>>
    => /\ playbackTimeoutRef # NULL
       /\ playbackTimeoutRef.midiOutputId # ""
       /\ noteOnsIn(midiSent) = oncePerChannel(NOTE_ON, 127, playbackTimeoutRef.item.notes,
                                               playbackTimeoutRef.midiChannel)

\* C20, Note-Off side: when a timeout fires, the Note-Offs its callback sends are
\* those of its item, once per note on the very channels its Note-Ons went to.
noteOffsAsNoteOns ==
    \A timer \in timers :
        (timer \notin timers' /\ isLooping' = isLooping
            /\ timer.midiOutputId # "" /\ timer.item.notes # <<>>)
        => SelectSeq(midiSent', LAMBDA m : ~isNoteOn(m))
                = oncePerChannel(NOTE_OFF, 0, timer.item.notes, timer.midiChannel)

\* C20: with the setting 0 each Note-On and Note-Off goes once to each of the 16
\* channels, with a setting n in 1..16 once to channel n - 1 (status 0x90 + (n - 1)
\* and 0x80 + (n - 1)), and a Note-Off goes to the channels of its Note-On.
C20_ChannelsOfNoteOnAndOff ==
    /\ [](noteOnsAsSet)
    /\ [][noteOffsAsNoteOns]_vars
    /\ [](\A n \in 1..16 :
            /\ sendNoteOn("out-1", 60, 127, n - 1) = << <<NOTE_ON + (n - 1), 60, 127>> >>
            /\ sendNoteOff("out-1", 60, n - 1) = << <<NOTE_OFF + (n - 1), 60, 0>> >>)

\* An Omni loop goes from one chord to the next: the handler sent the Note-Offs of
\* the chord that ended and the Note-Ons of the chord that starts on all sixteen
\* channels, while the selector has been moved to channel 16 in the meantime.
C20_Witness ==
    /\ playbackTimeoutRef # NULL
    /\ playbackTimeoutRef.midiChannel = 0
    /\ midiChannel = 16
    /\ noteOnsIn(midiSent) # <<>>
    /\ Len(midiSent) > Len(noteOnsIn(midiSent))
    /\ Len(noteOnsIn(midiSent)) = 16 * Len(playbackTimeoutRef.item.notes)

----------------------------------------------------------------------------
(* C21: the Note-Off messages of a preview release *)

\* The <<channel, note>> a sequence of messages is about.
keysOf(messages) == {keyOf(messages[i]) : i \in 1..Len(messages)}

\* A step is the release of a press: the index of the press has no entry in
\* previewPress afterwards.
releases(press) ==
    /\ press \in previewPress
    /\ previewPress' = withoutIndex(previewPress, press.index)

\* C21: when preview i is released, the Note-Off messages sent are for exactly
\* the notes and channels, on the same output, that the matching press of
\* preview i sent Note-On messages for, whatever changed in between.
C21_ReleaseMatchesPress ==
    [][\A press \in previewPress :
          releases(press) => keysOf(midiSent') = keysOf(press.messages)]_vars

----------------------------------------------------------------------------
(* C22: handleStop on the drum transport *)

\* C22: after handleStop, and until handlePlayPause is invoked again, playback
\* is stopped, the step index is 0 and no step is sounded, also when handleStop
\* ran while an earlier handlePlayPause was waiting for the audio contexts.
C22_StoppedUntilNextPlay ==
    transportStopped => ~isPlaying /\ currentStep = 0 /\ soundedStep = NULL

----------------------------------------------------------------------------
(* C23: the step index of the drum transport *)

\* A step of the interval callback: playback goes on, no waiting call resumed,
\* and the pattern and grid are as before.
isDrumTick ==
    /\ isPlaying /\ isPlaying'
    /\ playPending' = playPending
    /\ drumVars' = drumVars
    /\ <<currentStep, soundedStep>>' # <<currentStep, soundedStep>>

stepInRange == 0 <= currentStep /\ currentStep < totalSteps

tickMovesAndSounds ==
    isDrumTick => /\ currentStep' = (currentStep + 1) % totalSteps
                  /\ soundedStep' = playStep(grid, currentStep')

----------------------------------------------------------------------------
(* C24: one play of the step sequencer *)

\* The ticks of a play visit the steps in order from 0, and only a tick that
\* follows whole passes over the steps stops playback; it is the last one.
visitsInOrder ==
    \A k \in 1..Len(seqVisited) :
        IF seqVisited[k].stops
        THEN /\ k = Len(seqVisited)
             /\ k > 1
             /\ (k - 1) % SeqSteps = 0
             /\ seqVisited[k].step = SeqSteps - 1
        ELSE seqVisited[k].step = (k - 1) % SeqSteps

\* What a timer tick does: the playhead is where the tick left it; from the
\* last step it goes to step 0 and playback goes on when looping is enabled,
\* and it stays on the last step and playback stops when looping is disabled.
tickAtLastStep ==
    Len(seqVisited') = Len(seqVisited) + 1 =>
        \E tick \in {seqVisited'[Len(seqVisited')]} :
            /\ seqCurrentStep' = tick.step
            /\ seqIsPlaying' = ~tick.stops
            /\ seqCurrentStep = SeqSteps - 1 =>
                  IF seqIsLooping
                  THEN tick.step = 0 /\ ~tick.stops
                  ELSE tick.step = SeqSteps - 1 /\ tick.stops
            /\ seqCurrentStep # SeqSteps - 1 => ~tick.stops

\* C24: with looping disabled, a play started from the stopped state visits
\* steps 0, 1, ..., totalSteps - 1 once each in order and then stops by itself
\* with currentStep left at totalSteps - 1; with looping enabled the step after
\* totalSteps - 1 is 0 and playback continues.
C24_PlayVisitsStepsInOrder == [](visitsInOrder) /\ [][tickAtLastStep]_vars

\* A play with looping disabled went over every step once and stopped by itself.
C24_Witness ==
    /\ ~seqIsPlaying
    /\ ~seqIsLooping
    /\ seqCurrentStep = SeqSteps - 1
    /\ Len(seqVisited) = SeqSteps + 1
    /\ seqVisited[SeqSteps + 1].stops
    /\ \A k \in 1..SeqSteps : seqVisited[k] = [step |-> k - 1, stops |-> FALSE]

----------------------------------------------------------------------------
(* C25: sounds per arrival of the playhead *)

\* C25: while the sequencer plays, each arrival of the playhead on a step
\* triggers the step's sound at most once; toggling steps of the grid during
\* playback does not trigger the step under the playhead again.
C25_OneSoundPerArrival == seqTriggers <= 1

=============================================================================
